---- MODULE Spec2Model ----
(***************************************************************************)
(* Dictionary storage engine of yomitan-node: the Connection Manager       *)
(* (SQLiteDatabase) and the Storage Engine (DictionaryDatabase).           *)
(*                                                                         *)
(* The repository holds two builds of the pair:                            *)
(*   "better-sqlite3": SQLiteDatabase of part_004:319-557 with the engine  *)
(*                     of part_003 (store name 'dict.sqlite');             *)
(*   "libsql":         SQLiteDatabase of part_004:585-685 with the engine  *)
(*                     of part_006 (store name 'file:dict.sqlite').        *)
(* The variable build fixes which one a behaviour runs.  prepare(), close()*)
(* and purge() are the same text in both engines.  The data operations are *)
(* those of the build's engine; where the two engines differ the           *)
(* definition branches on build:                                           *)
(*   findTermsBulk       part_003 has a case 'anywhere', part_006 has not; *)
(*   bulkAdd             part_003 stores yomitanVersion, takes the term of *)
(*                       a termMeta item from item.term and passes `order` *)
(*                       for a tag, which is no column; part_006 stores no *)
(*                       yomitanVersion, takes item.expression and passes  *)
(*                       orderValue;                                       *)
(*   findTagMetaBulk     part_003 reads row.order, part_006 row.orderValue;*)
(*   getDictionaryInfo   part_003 returns the columns as they are, without *)
(*                       importDate; part_006 defaults styles and adds     *)
(*                       importDate;                                       *)
(*   getDictionaryCounts part_003 counts with db.fn.count(), which the     *)
(*                       drizzle instance does not have, and builds total  *)
(*                       from the keys of the groups; part_006 counts with *)
(*                       count() and starts total at zero for six stores.  *)
(*                                                                         *)
(* Every async method is cut at its awaits: the code between two awaits is *)
(* one atomic step (JavaScript runs it to completion), and any other call  *)
(* may run between two steps.  What a call awaits (the removal of a file,  *)
(* an SQL statement) happens in a step of its own, after the call has      *)
(* returned its promise and before the call resumes.                       *)
(***************************************************************************)
EXTENDS Integers, Sequences, FiniteSets, TLC

VARIABLES
    build,       \* which build of the two classes runs
    overlap,     \* how many calls the caller lets overlap (1: it awaits each call)
    files,       \* the file system: path -> content of the backing store
    dirs,        \* the directories that exist (besides the working directory)
    detached,    \* content of a file unlinked while the handle was open on it
    _client,     \* SQLiteDatabase._db / _client: the handle held
    _drizzle,    \* SQLiteDatabase._drizzle is non-null
    _isOpening,  \* SQLiteDatabase._isOpening
    _dbPath,     \* SQLiteDatabase._dbPath (better-sqlite3 build only)
    _isOpen,     \* DictionaryDatabase._isOpen
    calls,       \* the calls in flight: slot -> frame of the suspended async call
    opened,      \* history: an open() has succeeded and no close() was called since
    last         \* the step just taken: operation, outcome and returned value

vars == <<build, overlap, files, dirs, detached, _client, _drizzle, _isOpening,
          _dbPath, _isOpen, calls, opened, last>>

-----------------------------------------------------------------------------
(* Bounds *)

MaxCalls == 2
MaxRows == 2
MaxItems == 2

-----------------------------------------------------------------------------
(* Names, paths, stores *)

Builds == {"better-sqlite3", "libsql"}

\* The directory the second store name lies in.
DataDir == "data"

\* The files the model follows.
Paths == {"dict.sqlite", "data/dict.sqlite"}

\* DictionaryDatabase constructor: this._dbName.
EngineDbName(b) == IF b = "libsql" THEN "file:dict.sqlite" ELSE "dict.sqlite"

\* The names open() is called with, per build.
OpenNames(b) ==
    IF b = "libsql" THEN {"file:dict.sqlite", "file:data/dict.sqlite"}
    ELSE {"dict.sqlite", "data/dict.sqlite"}

\* The names deleteDatabase() is called with.
DeleteNames == {"dict.sqlite", "data/dict.sqlite", "file:dict.sqlite", "file:data/dict.sqlite"}

\* path.dirname(databaseName) of the better-sqlite3 open().
DirName(name) == IF name = "data/dict.sqlite" THEN DataDir ELSE "."

\* The file a name opens: better-sqlite3 takes the name as a path, libsql's
\* createClient({url}) takes a 'file:' URL and opens the path after the scheme.
StorePath(b, name) ==
    IF b = "libsql"
    THEN (IF name = "file:dict.sqlite" THEN "dict.sqlite" ELSE "data/dict.sqlite")
    ELSE name

\* The directory a path lies in ("." is the working directory, which exists).
ParentDir(path) == IF path = "data/dict.sqlite" THEN DataDir ELSE "."

DirExists(d, ds) == d = "." \/ d \in ds

StoreNames == {"dictionaries", "terms", "termMeta", "kanji", "kanjiMeta", "tagMeta", "media"}

NoRows == [st \in StoreNames |-> <<>>]

\* A file's content.  kind: "none" (no such file), "db" (an SQLite database,
\* possibly with no table yet: an empty file), "garbage" (not a database).
NoFile == [kind |-> "none", tables |-> FALSE, indexes |-> FALSE, rows |-> NoRows]
EmptyFile == [kind |-> "db", tables |-> FALSE, indexes |-> FALSE, rows |-> NoRows]
FreshStore == [kind |-> "db", tables |-> TRUE, indexes |-> TRUE, rows |-> NoRows]
GarbageFile == [kind |-> "garbage", tables |-> FALSE, indexes |-> FALSE, rows |-> NoRows]

NoHandle == [open |-> FALSE, path |-> ""]

Slots == 1..MaxCalls

\* The frame of a call: the method, the await it is suspended at, its name
\* argument and the outcome of fs.rm or fs.mkdir (rm; open, purge,
\* deleteDatabase); and for
\* a data operation its arguments (arg, <<>> or <<record>>), the statements it
\* has still to await (todo), what it has collected so far (acc), the state
\* of the drizzle instance it took from getDb() (db: "open", or "closed" once
\* close() was called on the handle) and the outcome it will return (out).
IdleFrame ==
    [op |-> "idle", pc |-> "-", name |-> "", rm |-> "-", arg |-> <<>>,
     todo |-> <<>>, acc |-> <<>>, db |-> "-", out |-> "-"]

Frame(op, pc, name, rm) ==
    [IdleFrame EXCEPT !.op = op, !.pc = pc, !.name = name, !.rm = rm]

\* The frame of a data operation after const db = this._db.getDb(), suspended
\* at its first await; with nothing to await it is about to return.
DataFrame(op, arg, todo) ==
    [IdleFrame EXCEPT !.op = op, !.pc = IF todo = <<>> THEN "done" ELSE "statement",
                      !.arg = <<arg>>, !.todo = todo, !.db = "open",
                      !.out = IF todo = <<>> THEN "ok" ELSE "-"]

\* The calls in flight once the handle was closed: the instance a data
\* operation holds is the one that was closed.
HandleClosed(cs) ==
    [t \in DOMAIN cs |-> IF cs[t].db = "open" THEN [cs[t] EXCEPT !.db = "closed"] ELSE cs[t]]

\* What a step reports: the method, whether the step is the call itself or the
\* resumption after an await, the outcome ("pending" while the call is still
\* in flight) and the value returned.
Step(op, step, out, val) == [op |-> op, step |-> step, out |-> out, val |-> val]

NoVal == <<>>

-----------------------------------------------------------------------------
(* Connection Manager: SQLiteDatabase *)

\* open(): the two guards before the try block.
OpenGuardNoOpenCheck(client, opening) ==
    IF opening THEN "AlreadyOpening" ELSE "pass"

OpenGuardNoOpeningCheck(client, opening) ==
    IF client.open THEN "AlreadyOpen" ELSE "pass"

OpenGuard(client, opening) ==
    IF client.open THEN "AlreadyOpen"
    ELSE IF opening THEN "AlreadyOpening"
    ELSE "pass"

\* _createTables(): CREATE TABLE IF NOT EXISTS for the seven tables.
CreateTables(c) == [c EXCEPT !.tables = TRUE]

\* _createIndices(): CREATE INDEX IF NOT EXISTS for every index.
CreateIndices(c) == [c EXCEPT !.indexes = TRUE]

\* What opening the file leaves on disk: SQLite creates a missing file.
OpenedFile(c) == IF c.kind = "none" THEN EmptyFile ELSE c

\* The schema work open() does on the opened store, per build: the
\* better-sqlite3 open() runs _createTables() and _createIndices(), the
\* libsql open() runs neither.
EnsureSchema(b, c) ==
    IF b = "libsql" THEN c ELSE CreateIndices(CreateTables(c))

\* open() from "Open the database connection" to the end of its finally
\* block; ds is the set of directories at that point.  out is the outcome.
OpenStore(name, ds, out) ==
    LET path == StorePath(build, name)
        onDisk == OpenedFile(files[path])
    IN  /\ _isOpening' = FALSE
        /\ \/ \* new Database() / createClient() throws
              /\ out = "IoError"
              /\ UNCHANGED <<_client, _drizzle, files, opened>>
           \/ \* the store opens
              /\ DirExists(ParentDir(path), ds)
              /\ _client' = [open |-> TRUE, path |-> path]
              /\ _drizzle' = TRUE
              /\ IF build # "libsql" /\ onDisk.kind = "garbage"
                 THEN \* _createTables() throws: the handle stays assigned
                      /\ out = "SqlError"
                      /\ files' = [files EXCEPT ![path] = onDisk]
                      /\ opened' = opened
                 ELSE /\ out = "ok"
                      /\ files' = [files EXCEPT ![path] = EnsureSchema(build, onDisk)]
                      /\ opened' = TRUE

\* The assignment this._dbPath = databaseName (better-sqlite3 build only).
SetDbPath(name) == _dbPath' = IF build = "libsql" THEN _dbPath ELSE name

\* Whether open(name) awaits fs.mkdir: only the better-sqlite3 build, and
\* only when path.dirname(name) is not '.'.
AwaitsMkdir(b, name) == b # "libsql" /\ DirName(name) # "."

\* close(): releases the handle if one is held.
CloseEffectKeepHandle ==
    /\ opened' = FALSE
    /\ UNCHANGED <<_client, _drizzle, detached>>

CloseEffect ==
    /\ opened' = FALSE
    /\ IF _client.open
       THEN /\ _client' = NoHandle
            /\ _drizzle' = FALSE
            /\ detached' = NoFile
       ELSE UNCHANGED <<_client, _drizzle, detached>>

\* getDb(): NotOpen unless the drizzle instance is set.
GetDb(drizzle) == IF ~drizzle THEN "NotOpen" ELSE "ok"

\* deleteDatabase(): what the caller sees for each outcome of fs.rm/fs.unlink:
\* ENOENT is swallowed, any other error is rethrown.
DeleteOutcomeThrowEnoent(rm) == IF rm = "removed" THEN "ok" ELSE "IoError"

DeleteOutcome(rm) == IF rm = "EIO" THEN "IoError" ELSE "ok"

\* fs.rm(name) / fs.unlink(name): name is taken literally as a path.  rm is
\* what happened: "removed", "ENOENT" (no such file) or "EIO" (another error).
\* A file removed while the handle is open on it lives on, detached, until
\* the handle is closed.
RemoveFile(name, rm) ==
    IF name \in Paths /\ files[name].kind # "none"
    THEN \/ /\ rm = "removed"
            /\ files' = [files EXCEPT ![name] = NoFile]
            /\ detached' = IF _client.open /\ _client.path = name
                            THEN files[name] ELSE detached
         \/ /\ rm = "EIO"
            /\ UNCHANGED <<files, detached>>
    ELSE /\ rm \in {"ENOENT", "EIO"}
         /\ UNCHANGED <<files, detached>>

RmOutcomes == {"removed", "ENOENT", "EIO"}

\* The caller's discipline: slot s is free and fewer than overlap calls are
\* in flight; the lowest free slot is taken.
Busy == {t \in Slots : calls[t].op # "idle"}

CanStart(s) ==
    /\ calls[s].op = "idle"
    /\ Cardinality(Busy) < overlap
    /\ \A t \in Slots : t < s => calls[t].op # "idle"

\* SQLiteDatabase.open(name), called directly: up to the await of fs.mkdir,
\* or to its end when there is none.
MgrOpen(s, name) ==
    /\ CanStart(s)
    /\ name \in OpenNames(build)
    /\ LET g == OpenGuard(_client, _isOpening) IN
       IF g # "pass"
       THEN /\ last' = Step("open", "call", g, NoVal)
            /\ UNCHANGED <<files, dirs, detached, _client, _drizzle, _isOpening,
                           _dbPath, _isOpen, calls, opened>>
       ELSE IF AwaitsMkdir(build, name)
       THEN /\ _isOpening' = TRUE
            /\ SetDbPath(name)
            /\ calls' = [calls EXCEPT ![s] = Frame("open", "mkdir", name, "-")]
            /\ last' = Step("open", "call", "pending", NoVal)
            /\ UNCHANGED <<files, dirs, detached, _client, _drizzle, _isOpen, opened>>
       ELSE /\ SetDbPath(name)
            /\ \E out \in {"ok", "IoError", "SqlError"} :
                  /\ OpenStore(name, dirs, out)
                  /\ last' = Step("open", "call", out, NoVal)
            /\ UNCHANGED <<dirs, detached, _isOpen, calls>>
    /\ UNCHANGED <<build, overlap>>

\* The fs.mkdir(dbDir, {recursive: true}) that open() asked for happens,
\* while open() is suspended: the directory exists afterwards ("made", also
\* when it existed before), or the call fails ("EIO") and makes nothing.
MgrOpenMkdir(s) ==
    /\ calls[s].op = "open" /\ calls[s].pc = "mkdir"
    /\ \E mk \in {"made", "EIO"} :
          /\ dirs' = IF mk = "made" THEN dirs \cup {DirName(calls[s].name)} ELSE dirs
          /\ calls' = [calls EXCEPT ![s].pc = "mkdirdone", ![s].rm = mk]
    /\ last' = Step("open", "mkdir", "pending", NoVal)
    /\ UNCHANGED <<build, overlap, files, detached, _client, _drizzle, _isOpening,
                   _dbPath, _isOpen, opened>>

\* open() resumed after await fs.mkdir(dbDir, {recursive: true}): when mkdir
\* failed only the finally block runs, else the store is opened.
MgrOpenResume(s) ==
    /\ calls[s].op = "open" /\ calls[s].pc = "mkdirdone"
    /\ calls' = [calls EXCEPT ![s] = IdleFrame]
    /\ IF calls[s].rm = "EIO"
       THEN /\ _isOpening' = FALSE
            /\ last' = Step("open", "resume", "IoError", NoVal)
            /\ UNCHANGED <<files, _client, _drizzle, opened>>
       ELSE \E out \in {"ok", "IoError", "SqlError"} :
                /\ OpenStore(calls[s].name, dirs, out)
                /\ last' = Step("open", "resume", out, NoVal)
    /\ UNCHANGED <<build, overlap, dirs, detached, _dbPath, _isOpen>>

\* SQLiteDatabase.close(), called directly.
MgrClose(s) ==
    /\ CanStart(s)
    /\ CloseEffect
    /\ calls' = HandleClosed(calls)
    /\ last' = Step("mgrClose", "call", "ok", NoVal)
    /\ UNCHANGED <<build, overlap, files, dirs, _isOpening, _dbPath, _isOpen>>

\* SQLiteDatabase.getDb(), called directly.
MgrGetDb(s) ==
    /\ CanStart(s)
    /\ last' = Step("getDb", "call", GetDb(_drizzle), NoVal)
    /\ UNCHANGED <<build, overlap, files, dirs, detached, _client, _drizzle,
                   _isOpening, _dbPath, _isOpen, calls, opened>>

\* SQLiteDatabase.deleteDatabase(name), called directly: the call, up to
\* await fs.rm(databaseName) / fs.unlink(databaseName).
MgrDelete(s, name) ==
    /\ CanStart(s)
    /\ name \in DeleteNames
    /\ calls' = [calls EXCEPT ![s] = Frame("deleteDatabase", "rm", name, "-")]
    /\ last' = Step("deleteDatabase", "call", "pending", <<name, "-">>)
    /\ UNCHANGED <<build, overlap, files, dirs, detached, _client, _drizzle,
                   _isOpening, _dbPath, _isOpen, opened>>

\* The fs.rm / fs.unlink that deleteDatabase() asked for happens.
MgrDeleteRm(s) ==
    /\ calls[s].op = "deleteDatabase" /\ calls[s].pc = "rm"
    /\ \E rm \in RmOutcomes :
          /\ RemoveFile(calls[s].name, rm)
          /\ calls' = [calls EXCEPT ![s].pc = "rmdone", ![s].rm = rm]
          /\ last' = Step("deleteDatabase", "rm", "pending", <<calls[s].name, rm>>)
    /\ UNCHANGED <<build, overlap, dirs, _client, _drizzle, _isOpening, _dbPath,
                   _isOpen, opened>>

\* deleteDatabase() resumed after the await: ENOENT is swallowed, any other
\* error is rethrown.
MgrDeleteResume(s) ==
    /\ calls[s].op = "deleteDatabase" /\ calls[s].pc = "rmdone"
    /\ calls' = [calls EXCEPT ![s] = IdleFrame]
    /\ last' = Step("deleteDatabase", "resume", DeleteOutcome(calls[s].rm),
                    <<calls[s].name, calls[s].rm>>)
    /\ UNCHANGED <<build, overlap, files, dirs, detached, _client, _drizzle,
                   _isOpening, _dbPath, _isOpen, opened>>

-----------------------------------------------------------------------------
(* Storage Engine: DictionaryDatabase, lifecycle *)

\* purge(): the guard on the Connection Manager's isOpening().
PurgeGuardNone(opening) == "pass"

PurgeGuard(opening) == IF opening THEN "CannotPurgeWhileOpening" ELSE "pass"

\* purge(): the value of result after the try/catch around deleteDatabase().
PurgeResultAlwaysTrue(rm) == TRUE

PurgeResult(rm) == DeleteOutcome(rm) = "ok"

\* The name purge() hands to deleteDatabase(): this._dbName.
PurgeDeleteName(b) == EngineDbName(b)

\* prepare() up to its await: this._db.open(this._dbName) runs to its end
\* (path.dirname of the engine's store name is '.', so open() awaits nothing).
\* out is the outcome of open().
PrepareOpen(out) ==
    LET name == EngineDbName(build)
        g == OpenGuard(_client, _isOpening)
    IN  IF g # "pass"
        THEN /\ out = g
             /\ UNCHANGED <<files, _client, _drizzle, _isOpening, _dbPath, opened>>
        ELSE /\ SetDbPath(name)
             /\ OpenStore(name, dirs, out)

\* prepare(): the call, up to await this._db.open(...).
Prepare(s) ==
    /\ CanStart(s)
    /\ \E out \in {"ok", "IoError", "SqlError", "AlreadyOpen", "AlreadyOpening"} :
          /\ PrepareOpen(out)
          /\ IF out = "ok"
             THEN /\ calls' = [calls EXCEPT ![s] = Frame("prepare", "set", "", "-")]
                  /\ last' = Step("prepare", "call", "pending", NoVal)
             ELSE /\ calls' = calls
                  /\ last' = Step("prepare", "call", out, NoVal)
    /\ UNCHANGED <<build, overlap, dirs, detached, _isOpen>>

\* prepare() resumed: this._isOpen = true.
PrepareResume(s) ==
    /\ calls[s].op = "prepare" /\ calls[s].pc = "set"
    /\ _isOpen' = TRUE
    /\ calls' = [calls EXCEPT ![s] = IdleFrame]
    /\ last' = Step("prepare", "resume", "ok", NoVal)
    /\ UNCHANGED <<build, overlap, files, dirs, detached, _client, _drizzle,
                   _isOpening, _dbPath, opened>>

\* close(): the call, up to await this._db.close().
Close(s) ==
    /\ CanStart(s)
    /\ CloseEffect
    /\ calls' = [HandleClosed(calls) EXCEPT ![s] = Frame("close", "closed", "", "-")]
    /\ last' = Step("close", "call", "pending", NoVal)
    /\ UNCHANGED <<build, overlap, files, dirs, _isOpening, _dbPath, _isOpen>>

\* close() resumed: this._isOpen = false.
CloseResume(s) ==
    /\ calls[s].op = "close" /\ calls[s].pc = "closed"
    /\ _isOpen' = FALSE
    /\ calls' = [calls EXCEPT ![s] = IdleFrame]
    /\ last' = Step("close", "resume", "ok", NoVal)
    /\ UNCHANGED <<build, overlap, files, dirs, detached, _client, _drizzle,
                   _isOpening, _dbPath, opened>>

\* purge(): the call.  It throws if the manager is opening; closes the manager
\* and awaits if the engine is open; otherwise goes on to deleteDatabase(),
\* which awaits fs.rm.
Purge(s) ==
    /\ CanStart(s)
    /\ IF PurgeGuard(_isOpening) # "pass"
       THEN /\ last' = Step("purge", "call", PurgeGuard(_isOpening), NoVal)
            /\ UNCHANGED <<_client, _drizzle, detached, calls, opened>>
       ELSE IF _isOpen
       THEN /\ CloseEffect
            /\ calls' = [HandleClosed(calls) EXCEPT ![s] = Frame("purge", "closed", "", "-")]
            /\ last' = Step("purge", "call", "pending", NoVal)
       ELSE /\ calls' = [calls EXCEPT ![s] = Frame("purge", "rm", "", "-")]
            /\ last' = Step("purge", "call", "pending", NoVal)
            /\ UNCHANGED <<_client, _drizzle, detached, opened>>
    /\ UNCHANGED <<build, overlap, files, dirs, _isOpening, _dbPath, _isOpen>>

\* purge() resumed after await this._db.close(): this._isOpen = false, then
\* deleteDatabase() is called and awaits fs.rm.
PurgeAfterClose(s) ==
    /\ calls[s].op = "purge" /\ calls[s].pc = "closed"
    /\ _isOpen' = FALSE
    /\ calls' = [calls EXCEPT ![s].pc = "rm"]
    /\ last' = Step("purge", "resume", "pending", NoVal)
    /\ UNCHANGED <<build, overlap, files, dirs, detached, _client, _drizzle,
                   _isOpening, _dbPath, opened>>

\* The fs.rm / fs.unlink that purge()'s deleteDatabase() asked for happens.
PurgeRm(s) ==
    /\ calls[s].op = "purge" /\ calls[s].pc = "rm"
    /\ \E rm \in RmOutcomes :
          /\ RemoveFile(PurgeDeleteName(build), rm)
          /\ calls' = [calls EXCEPT ![s].pc = "rmdone", ![s].rm = rm]
    /\ last' = Step("purge", "resume", "pending", NoVal)
    /\ UNCHANGED <<build, overlap, dirs, _client, _drizzle, _isOpening, _dbPath,
                   _isOpen, opened>>

\* purge() resumed after deleteDatabase(): result is set, then prepare() is
\* called and runs open() to its end.
PurgeAfterRm(s) ==
    /\ calls[s].op = "purge" /\ calls[s].pc = "rmdone"
    /\ \E out \in {"ok", "IoError", "SqlError", "AlreadyOpen", "AlreadyOpening"} :
          /\ PrepareOpen(out)
          /\ IF out = "ok"
             THEN /\ calls' = [calls EXCEPT ![s].pc = "prepare"]
                  /\ last' = Step("purge", "resume", "pending", NoVal)
             ELSE /\ calls' = [calls EXCEPT ![s] = IdleFrame]
                  /\ last' = Step("purge", "resume", out, NoVal)
    /\ UNCHANGED <<build, overlap, dirs, detached, _isOpen>>

\* purge()'s prepare() resumed: this._isOpen = true; purge() returns result.
PurgeAfterPrepare(s) ==
    /\ calls[s].op = "purge" /\ calls[s].pc = "prepare"
    /\ _isOpen' = TRUE
    /\ calls' = [calls EXCEPT ![s] = IdleFrame]
    /\ last' = Step("purge", "resume",
                    IF PurgeResult(calls[s].rm) THEN "true" ELSE "false", NoVal)
    /\ UNCHANGED <<build, overlap, files, dirs, detached, _client, _drizzle,
                   _isOpening, _dbPath, opened>>

-----------------------------------------------------------------------------
(* Storage Engine: DictionaryDatabase, data *)

\* Strings that the engine takes apart are sequences of characters.
Null == <<"<null>">>

RECURSIVE SeqsUpTo(_, _)
SeqsUpTo(S, n) ==
    IF n = 0 THEN {<<>>}
    ELSE LET shorter == SeqsUpTo(S, n - 1)
         IN  shorter \cup {Append(q, x) : q \in {r \in shorter : Len(r) = n - 1}, x \in S}

RECURSIVE Concat(_)
Concat(seqs) == IF seqs = <<>> THEN <<>> ELSE Head(seqs) \o Concat(Tail(seqs))

\* A string is the sequence of its UTF-16 code units.  The units in use are
\* characters of the basic plane, one high surrogate and one low surrogate.
HighSurrogates == {"D83D"}
LowSurrogates == {"DE00"}

\* [...str]: the string iterator yields one element per code point, a high
\* surrogate with the low surrogate after it as one element, any other unit
\* (an unpaired surrogate too) on its own.
RECURSIVE Spread(_)
Spread(str) ==
    IF str = <<>> THEN <<>>
    ELSE IF Len(str) >= 2 /\ str[1] \in HighSurrogates /\ str[2] \in LowSurrogates
         THEN <<SubSeq(str, 1, 2)>> \o Spread(SubSeq(str, 3, Len(str)))
    ELSE <<SubSeq(str, 1, 1)>> \o Spread(Tail(str))

\* _reverseString(): [...str].reverse().join('').
_reverseString(str) ==
    LET points == Spread(str)
    IN  Concat([i \in 1..Len(points) |-> points[Len(points) + 1 - i]])

\* The store the handle reads: the file it was opened on, or that file's
\* detached content once the file was unlinked under the handle.  A write
\* goes to the file; on an unlinked file SQLite refuses it
\* (SQLITE_READONLY_DBMOVED) and nothing is written.
HandleContent == IF detached.kind # "none" THEN detached ELSE files[_client.path]

WriteContent(c) ==
    IF detached.kind # "none"
    THEN UNCHANGED <<files, detached>>
    ELSE /\ files' = [files EXCEPT ![_client.path] = c]
         /\ detached' = detached

\* A statement on a table runs only on a database that has the table.
Queryable(c) == c.kind = "db" /\ c.tables

TotalRows(c) ==
    Len(c.rows["dictionaries"]) + Len(c.rows["terms"]) + Len(c.rows["termMeta"])
    + Len(c.rows["kanji"]) + Len(c.rows["kanjiMeta"]) + Len(c.rows["tagMeta"])
    + Len(c.rows["media"])

\* An optional number (sequence?: number, a nullable INTEGER column): <<>>
\* when absent or NULL, <<n>> when n.
NoSequence == <<>>

\* An optional field (frequencyMode?, counts?, yomitanVersion?) or a nullable
\* column: Absent for undefined and for NULL, <<v>> for the value v.
Absent == <<>>

\* JSON.stringify(value): undefined for undefined, which the INSERT stores as
\* NULL, else the text of the value.  parseJson(text) reads the value back.
JsonStringify(value) == IF value = Absent THEN Absent ELSE <<[json |-> value[1]]>>

ParseJson(text) == text.json

\* item[field] as JavaScript reads it: undefined, which the INSERT stores as
\* NULL, for a field the item does not have.
FieldOf(item, field) == IF field \in DOMAIN item THEN item[field] ELSE Null

\* The items bulkAdd() is called with, per store.  A termMeta item names its
\* term `expression` (what part_006 reads) or `term` (what part_003 reads).
Titles == {"D1", "D2"}

\* D1 carries every optional field of a Summary, D2 none of them.
DictItem(t) ==
    [title |-> t, version |-> 3, revision |-> "r1", sequenced |-> TRUE,
     prefixWildcardsSupported |-> FALSE,
     author |-> IF t = "D1" THEN <<"au">> ELSE Absent,
     url |-> IF t = "D1" THEN <<"u">> ELSE Absent,
     description |-> IF t = "D1" THEN <<"de">> ELSE Absent,
     attribution |-> IF t = "D1" THEN <<"at">> ELSE Absent,
     styles |-> IF t = "D1" THEN <<"css">> ELSE Absent,
     frequencyMode |-> IF t = "D1" THEN <<"rank-based">> ELSE Absent,
     counts |-> IF t = "D1" THEN <<[terms |-> 1, kanji |-> 0]>> ELSE Absent,
     yomitanVersion |-> IF t = "D1" THEN <<"v1">> ELSE Absent]

ItemsOf(st) ==
    CASE st = "dictionaries" -> {DictItem(t) : t \in Titles}
      [] st = "terms" ->
            {[dictionary |-> "D1", expression |-> <<"a", "b">>, reading |-> <<>>,
              sequence |-> NoSequence]}
      [] st = "termMeta" ->
            {[dictionary |-> "D1", expression |-> <<"a", "b">>, mode |-> "freq"],
             [dictionary |-> "D1", term |-> <<"a", "b">>, mode |-> "freq"]}
      [] st = "kanji" -> {[dictionary |-> "D1", character |-> <<"k">>]}
      [] st = "kanjiMeta" ->
            {[dictionary |-> "D1", character |-> <<"k">>, mode |-> "freq"]}
      [] st = "tagMeta" ->
            {[dictionary |-> "D1", name |-> <<"n">>, category |-> "c", order |-> 1,
              notes |-> "x", score |-> 0]}
      [] st = "media" -> {[dictionary |-> "D1", path |-> "p.png"]}

\* bulkAdd(): the row each store's branch inserts for an item; id is the
\* value the AUTOINCREMENT key takes.  A column the values do not list is
\* NULL.  The dictionaries branch of part_003 lists yomitanVersion, that of
\* part_006 does not.  The termMeta branch takes term from item.term in
\* part_003 and from item.expression in part_006.  The tagMeta branch of
\* part_003 passes `order`, which is no key of the table, so order_value is
\* not listed; part_006 passes orderValue.
EncodeRow(st, item, id) ==
    CASE st = "dictionaries" ->
            [title |-> item.title, version |-> item.version,
             revision |-> item.revision,
             sequenced |-> IF item.sequenced THEN 1 ELSE 0,
             author |-> item.author, url |-> item.url,
             description |-> item.description, attribution |-> item.attribution,
             frequencyMode |-> item.frequencyMode,
             prefixWildcardsSupported |->
                 IF item.prefixWildcardsSupported THEN 1 ELSE 0,
             styles |-> item.styles,
             counts |-> JsonStringify(item.counts),
             yomitanVersion |->
                 IF build = "libsql" THEN Absent ELSE item.yomitanVersion]
      [] st = "terms" ->
            [id |-> id, dictionary |-> item.dictionary,
             expression |-> item.expression, reading |-> item.reading,
             expressionReverse |->
                 IF item.expression # <<>> THEN _reverseString(item.expression)
                 ELSE Null,
             readingReverse |->
                 IF item.reading # <<>> THEN _reverseString(item.reading)
                 ELSE Null,
             sequence |-> item.sequence]
      [] st = "termMeta" ->
            [id |-> id, dictionary |-> item.dictionary,
             term |-> IF build = "libsql" THEN FieldOf(item, "expression")
                      ELSE FieldOf(item, "term"),
             mode |-> item.mode]
      [] st = "kanji" ->
            [id |-> id, dictionary |-> item.dictionary, character |-> item.character]
      [] st = "kanjiMeta" ->
            [id |-> id, dictionary |-> item.dictionary, character |-> item.character,
             mode |-> item.mode]
      [] st = "tagMeta" ->
            [id |-> id, dictionary |-> item.dictionary, name |-> item.name,
             category |-> item.category,
             orderValue |-> IF build = "libsql" THEN <<item.order>> ELSE Absent,
             notes |-> item.notes, score |-> item.score]
      [] st = "media" ->
            [id |-> id, dictionary |-> item.dictionary, path |-> item.path]

\* The schema: term of termMeta and order_value of tagMeta are NOT NULL, so
\* a row that leaves one of them NULL is refused.
NotNullViolated(st, item) ==
    \/ st = "termMeta" /\ EncodeRow(st, item, 0).term = Null
    \/ st = "tagMeta" /\ EncodeRow(st, item, 0).orderValue = Absent

\* One INSERT through the handle: it fails on a store without the table, on a
\* store unlinked under the handle, on a row that leaves a NOT NULL column
\* NULL, and on a dictionaries row whose title (the primary key) is already
\* stored.
InsertFailsWithoutKey(c, st, item) ==
    \/ ~Queryable(c)
    \/ detached.kind # "none"
    \/ NotNullViolated(st, item)

InsertFails(c, st, item) ==
    \/ ~Queryable(c)
    \/ detached.kind # "none"
    \/ NotNullViolated(st, item)
    \/ /\ st = "dictionaries"
       /\ \E i \in 1..Len(c.rows[st]) : c.rows[st][i].title = item.title

InsertRow(c, st, item) ==
    [c EXCEPT !.rows[st] = Append(@, EncodeRow(st, item, Len(@) + 1))]

InsertStepRollingBack(c, st, todo, acc) ==
    IF InsertFails(c, st, Head(todo))
    THEN [content |-> [c EXCEPT !.rows[st] = SubSeq(@, 1, Len(@) - Len(acc))],
          todo |-> todo, acc |-> <<>>, out |-> "SqlError"]
    ELSE [content |-> InsertRow(c, st, Head(todo)), todo |-> Tail(todo),
          acc |-> Append(acc, Head(todo)),
          out |-> IF Tail(todo) = <<>> THEN "ok" ELSE "-"]

\* bulkAdd(): one turn of the loop over itemsToAdd, the awaited INSERT of the
\* next item.  There is no transaction: a failing INSERT ends the loop and
\* leaves the rows of the earlier turns stored.  out is "-" while items
\* remain.
InsertStep(c, st, todo, acc) ==
    IF InsertFails(c, st, Head(todo))
    THEN [content |-> c, todo |-> todo, acc |-> acc, out |-> "SqlError"]
    ELSE [content |-> InsertRow(c, st, Head(todo)), todo |-> Tail(todo),
          acc |-> Append(acc, Head(todo)),
          out |-> IF Tail(todo) = <<>> THEN "ok" ELSE "-"]

Min(a, b) == IF a < b THEN a ELSE b

SliceFromFirst(items, start, end) ==
    IF start >= end THEN <<>> ELSE SubSeq(items, 1, end)

\* items.slice(start, end) for 0 <= start.
Slice(items, start, end) ==
    IF start >= end THEN <<>> ELSE SubSeq(items, start + 1, end)

\* The arguments of a bulkAdd() call.
BulkInput(st, items, start, count) ==
    [store |-> st, items |-> items, start |-> start, count |-> count]

\* A bulkAdd() call and the number of items it has inserted.
BulkResult(input, added) ==
    [store |-> input.store, items |-> input.items, start |-> input.start,
     count |-> input.count, added |-> added]

\* The items that the bulkAdd() calls in flight have still to insert.
RECURSIVE PendingUpTo(_)
PendingUpTo(n) ==
    IF n = 0 THEN 0
    ELSE PendingUpTo(n - 1)
         + (IF calls[n].op = "bulkAdd" THEN Len(calls[n].todo) ELSE 0)

PendingInserts == PendingUpTo(MaxCalls)

\* bulkAdd(objectStoreName, items, start, count): the call, up to the await
\* of the first INSERT.  It returns at once for an empty list or count <= 0,
\* throws without a handle, and has nothing to await for an empty slice.
BulkAdd(s, st, items, start, count) ==
    /\ CanStart(s)
    /\ LET input == BulkInput(st, items, start, count)
           end == Min(start + count, Len(items))
           itemsToAdd == Slice(items, start, end)
       IN  IF Len(items) = 0 \/ count <= 0
           THEN /\ last' = Step("bulkAdd", "call", "ok", BulkResult(input, 0))
                /\ calls' = calls
           ELSE IF GetDb(_drizzle) # "ok"
           THEN /\ last' = Step("bulkAdd", "call", GetDb(_drizzle), BulkResult(input, 0))
                /\ calls' = calls
           ELSE IF itemsToAdd = <<>>
           THEN /\ last' = Step("bulkAdd", "call", "ok", BulkResult(input, 0))
                /\ calls' = calls
           ELSE /\ TotalRows(HandleContent) + PendingInserts + Len(itemsToAdd) <= MaxRows
                /\ calls' = [calls EXCEPT ![s] = DataFrame("bulkAdd", input, itemsToAdd)]
                /\ last' = Step("bulkAdd", "call", "pending", BulkResult(input, 0))
    /\ UNCHANGED <<build, overlap, files, dirs, detached, _client, _drizzle,
                   _isOpening, _dbPath, _isOpen, opened>>

\* The INSERT that bulkAdd() awaits runs, on the instance the call took from
\* getDb(): the driver refuses it on a closed handle.
BulkAddInsert(s) ==
    /\ calls[s].op = "bulkAdd" /\ calls[s].pc = "statement"
    /\ LET f == calls[s]
           input == f.arg[1]
       IN  IF f.db = "closed"
           THEN /\ calls' = [calls EXCEPT ![s].pc = "done",
                                          ![s].out = "ConnectionClosed"]
                /\ last' = Step("bulkAdd", "statement", "pending",
                                BulkResult(input, Len(f.acc)))
                /\ UNCHANGED <<files, detached>>
           ELSE LET r == InsertStep(HandleContent, input.store, f.todo, f.acc)
                IN  /\ WriteContent(r.content)
                    /\ calls' = [calls EXCEPT
                                    ![s].todo = r.todo, ![s].acc = r.acc,
                                    ![s].pc = IF r.out = "-" THEN "statement" ELSE "done",
                                    ![s].out = r.out]
                    /\ last' = Step("bulkAdd", "statement", "pending",
                                    BulkResult(input, Len(r.acc)))
    /\ UNCHANGED <<build, overlap, dirs, _client, _drizzle, _isOpening, _dbPath,
                   _isOpen, opened>>

\* bulkAdd() resumed after its last INSERT, or after the one that failed: it
\* returns, or throws the error of the statement.
BulkAddResume(s) ==
    /\ calls[s].op = "bulkAdd" /\ calls[s].pc = "done"
    /\ calls' = [calls EXCEPT ![s] = IdleFrame]
    /\ last' = Step("bulkAdd", "resume", calls[s].out,
                    BulkResult(calls[s].arg[1], Len(calls[s].acc)))
    /\ UNCHANGED <<build, overlap, files, dirs, detached, _client, _drizzle,
                   _isOpening, _dbPath, _isOpen, opened>>

\* getDictionaryInfo(): the public shape of a dictionaries row.  Absent
\* stands for undefined and for null.  part_003 returns the columns as they
\* are, with Boolean() on the two flags and {} (the object with no key) for
\* counts that are NULL.
\* part_006 compares prefixWildcardsSupported with 1, gives '' for styles
\* that are NULL, undefined for counts that are NULL, and adds importDate,
\* which is Date.now() at the call and no column of the row.
DecodeSummary(row) ==
    IF build = "libsql"
    THEN [title |-> row.title, version |-> row.version, revision |-> row.revision,
          sequenced |-> row.sequenced # 0,
          author |-> row.author, url |-> row.url, description |-> row.description,
          attribution |-> row.attribution,
          frequencyMode |-> row.frequencyMode,
          prefixWildcardsSupported |-> row.prefixWildcardsSupported = 1,
          styles |-> IF row.styles = Absent THEN "" ELSE row.styles[1],
          counts |-> IF row.counts # Absent THEN <<ParseJson(row.counts[1])>>
                     ELSE Absent,
          yomitanVersion |-> row.yomitanVersion,
          importDate |-> "Date.now()"]
    ELSE [title |-> row.title, version |-> row.version, revision |-> row.revision,
          sequenced |-> row.sequenced # 0,
          author |-> row.author, url |-> row.url, description |-> row.description,
          attribution |-> row.attribution,
          frequencyMode |-> row.frequencyMode,
          prefixWildcardsSupported |-> row.prefixWildcardsSupported # 0,
          styles |-> row.styles,
          counts |-> IF row.counts # Absent THEN <<ParseJson(row.counts[1])>>
                     ELSE <<[key \in {} |-> 0]>>,
          yomitanVersion |-> row.yomitanVersion]

\* A read operation that starts with const db = this._db.getDb(): it throws
\* without a handle, else awaits its first statement.
ReadCall(s, op, arg, todo) ==
    IF GetDb(_drizzle) # "ok"
    THEN /\ last' = Step(op, "call", GetDb(_drizzle), arg)
         /\ calls' = calls
    ELSE /\ calls' = [calls EXCEPT ![s] = DataFrame(op, arg, todo)]
         /\ last' = Step(op, "call", "pending", arg)

\* getDictionaryInfo(): the call, up to the await of its SELECT.
GetDictionaryInfo(s) ==
    /\ CanStart(s)
    /\ ReadCall(s, "getDictionaryInfo", NoVal, <<[store |-> "dictionaries"]>>)
    /\ UNCHANGED <<build, overlap, files, dirs, detached, _client, _drizzle,
                   _isOpening, _dbPath, _isOpen, opened>>

\* dictionaryExists(title): the call, up to the await of its SELECT.
DictionaryExists(s, title) ==
    /\ CanStart(s)
    /\ ReadCall(s, "dictionaryExists", [title |-> title],
                <<[store |-> "dictionaries"]>>)
    /\ UNCHANGED <<build, overlap, files, dirs, detached, _client, _drizzle,
                   _isOpening, _dbPath, _isOpen, opened>>

-----------------------------------------------------------------------------
(* Storage Engine: DictionaryDatabase, lookups *)

\* ASCII case folding as SQLite's LIKE applies it (the letters in use).
AsciiLower(c) == IF c = "A" THEN "a" ELSE c

\* SQLite's LIKE on two strings: % matches any run of characters, _ any one
\* character, ASCII letters match in either case; no ESCAPE is given.
RECURSIVE Like(_, _)
Like(str, pat) ==
    IF pat = <<>> THEN str = <<>>
    ELSE IF Head(pat) = "%"
         THEN Like(str, Tail(pat)) \/ (str # <<>> /\ Like(Tail(str), pat))
    ELSE IF str = <<>> THEN FALSE
    ELSE IF Head(pat) = "_" THEN Like(Tail(str), Tail(pat))
    ELSE AsciiLower(Head(str)) = AsciiLower(Head(pat)) /\ Like(Tail(str), Tail(pat))

\* like(column, pattern): a NULL column matches no pattern.
SqlLike(col, pat) == col # Null /\ Like(col, pat)

\* findTermsBulk(): the match types its switch has a case for; 'anywhere'
\* is a case of part_003 only.
KnownMatchTypes ==
    IF build = "libsql" THEN {"exact", "prefix", "suffix"}
    ELSE {"exact", "prefix", "suffix", "anywhere"}

TermQueryExactByLike(matchType, term, row) ==
    CASE matchType = "exact" -> SqlLike(row.expression, term)
      [] matchType = "prefix" -> SqlLike(row.expression, term \o <<"%">>)
      [] matchType = "suffix" ->
            SqlLike(row.expressionReverse, _reverseString(term) \o <<"%">>)
      [] matchType = "anywhere" ->
            SqlLike(row.expression, <<"%">> \o term \o <<"%">>)

\* findTermsBulk(): the WHERE clause of the query built for one term.
TermQuery(matchType, term, row) ==
    CASE matchType = "exact" -> row.expression = term
      [] matchType = "prefix" -> SqlLike(row.expression, term \o <<"%">>)
      [] matchType = "suffix" ->
            SqlLike(row.expressionReverse, _reverseString(term) \o <<"%">>)
      [] matchType = "anywhere" ->
            SqlLike(row.expression, <<"%">> \o term \o <<"%">>)

\* findTermsBulk() / findTermsExactBulk(): the entry pushed for a row.
TermEntry(row, i, matchType) ==
    [index |-> i, matchType |-> matchType, matchSource |-> "term",
     term |-> row.expression, reading |-> row.reading,
     dictionary |-> row.dictionary, id |-> row.id,
     sequence |-> IF row.sequence = NoSequence THEN 0 ELSE row.sequence[1]]

\* findTermsExactBulk(): the WHERE clause of the query built for one pair.
ExactQueryTermOnly(pair, row) == row.expression = pair.term

ExactQuery(pair, row) == row.expression = pair.term /\ row.reading = pair.reading

\* dictionaries.has(row.dictionary).
InDictionarySetAlways(dictionaries, row) == TRUE

InDictionarySet(dictionaries, row) == row.dictionary \in dictionaries

\* The loop variable i of the finders (from 0) at the i-th list element.
PositionZero(i) == 0

Position(i) == i - 1

\* findTagMetaBulk(): and(eq(name, name), eq(dictionary, dictionary)).
TagQuery(pair, row) == row.name = pair.name /\ row.dictionary = pair.dictionary

\* The WHERE clause of the query a finder builds for one list element.
RowSelected(op, matchType, key, row) ==
    CASE op = "findTermsBulk" -> TermQuery(matchType, key, row)
      [] op = "findTermsExactBulk" -> ExactQuery(key, row)
      [] op = "findKanjiBulk" -> row.character = key
      [] op = "findTermMetaBulk" -> row.term = key
      [] op = "findKanjiMetaBulk" -> row.character = key
      [] op = "findTagMetaBulk" -> TagQuery(key, row)

\* The filter on the selected rows: findTagMetaBulk() has none.
RowEnabled(op, dictionaries, row) ==
    op = "findTagMetaBulk" \/ InDictionarySet(dictionaries, row)

\* The entry a finder pushes for a row at loop position i.  For a tag
\* part_006 reads order from row.orderValue; part_003 reads row.order, which
\* the row does not have, so order is undefined.
EntryOf(op, matchType, row, i) ==
    CASE op \in {"findTermsBulk", "findTermsExactBulk"} -> TermEntry(row, i, matchType)
      [] op = "findKanjiBulk" ->
            [index |-> i, character |-> row.character, dictionary |-> row.dictionary]
      [] op = "findTermMetaBulk" ->
            [index |-> i, term |-> row.term, mode |-> row.mode,
             dictionary |-> row.dictionary]
      [] op = "findKanjiMetaBulk" ->
            [index |-> i, character |-> row.character, mode |-> row.mode,
             dictionary |-> row.dictionary]
      [] op = "findTagMetaBulk" ->
            [name |-> row.name, category |-> row.category,
             order |-> IF build = "libsql" THEN row.orderValue ELSE Absent,
             notes |-> row.notes, score |-> row.score, dictionary |-> row.dictionary]

\* One turn of the loop shared by the finders: the rows the query for the
\* key at loop position i selects, those of an enabled dictionary encoded
\* and pushed.
FindAt(op, rows, key, i, dictionaries, matchType) ==
    LET hits == SelectSeq(rows, LAMBDA r : /\ RowSelected(op, matchType, key, r)
                                           /\ RowEnabled(op, dictionaries, r))
    IN  [k \in 1..Len(hits) |-> EntryOf(op, matchType, hits[k], i)]

\* The queries a finder awaits, one per list element in list order.
FindStatements(st, list) ==
    [i \in 1..Len(list) |-> [store |-> st, i |-> Position(i), key |-> list[i]]]

FindGuardHandleFirst(list) ==
    IF GetDb(_drizzle) # "ok" THEN GetDb(_drizzle)
    ELSE IF list = <<>> THEN "empty"
    ELSE "pending"

\* The start of a finder: [] for an empty list before anything is touched,
\* then getDb(), which throws without a handle.
FindGuard(list) ==
    IF list = <<>> THEN "empty"
    ELSE IF GetDb(_drizzle) # "ok" THEN GetDb(_drizzle)
    ELSE "pending"

FindInput(list, dictionaries, matchType) ==
    [list |-> list, dictionaries |-> dictionaries, matchType |-> matchType,
     result |-> <<>>]

\* A finder call on one store, up to the await of its first query.
Find(s, op, st, list, dictionaries, matchType) ==
    LET input == FindInput(list, dictionaries, matchType)
        g == FindGuard(list)
    IN  IF g = "pending"
        THEN /\ calls' = [calls EXCEPT ![s] = DataFrame(op, input, FindStatements(st, list))]
             /\ last' = Step(op, "call", "pending", input)
        ELSE /\ calls' = calls
             /\ last' = Step(op, "call", IF g = "empty" THEN "ok" ELSE g, input)

\* findTermsBulk(termList, dictionaries, matchType).
FindTermsBulk(s, termList, dictionaries, matchType) ==
    /\ CanStart(s)
    /\ Find(s, "findTermsBulk", "terms", termList, dictionaries, matchType)
    /\ UNCHANGED <<build, overlap, files, dirs, detached, _client, _drizzle,
                   _isOpening, _dbPath, _isOpen, opened>>

\* findTermsExactBulk(termList, dictionaries).
FindTermsExactBulk(s, termList, dictionaries) ==
    /\ CanStart(s)
    /\ Find(s, "findTermsExactBulk", "terms", termList, dictionaries, "exact")
    /\ UNCHANGED <<build, overlap, files, dirs, detached, _client, _drizzle,
                   _isOpening, _dbPath, _isOpen, opened>>

\* findKanjiBulk(kanjiList, dictionaries).
FindKanjiBulk(s, kanjiList, dictionaries) ==
    /\ CanStart(s)
    /\ Find(s, "findKanjiBulk", "kanji", kanjiList, dictionaries, "exact")
    /\ UNCHANGED <<build, overlap, files, dirs, detached, _client, _drizzle,
                   _isOpening, _dbPath, _isOpen, opened>>

\* findTermMetaBulk(termList, dictionaries).
FindTermMetaBulk(s, termList, dictionaries) ==
    /\ CanStart(s)
    /\ Find(s, "findTermMetaBulk", "termMeta", termList, dictionaries, "exact")
    /\ UNCHANGED <<build, overlap, files, dirs, detached, _client, _drizzle,
                   _isOpening, _dbPath, _isOpen, opened>>

\* findKanjiMetaBulk(kanjiList, dictionaries).
FindKanjiMetaBulk(s, kanjiList, dictionaries) ==
    /\ CanStart(s)
    /\ Find(s, "findKanjiMetaBulk", "kanjiMeta", kanjiList, dictionaries, "exact")
    /\ UNCHANGED <<build, overlap, files, dirs, detached, _client, _drizzle,
                   _isOpening, _dbPath, _isOpen, opened>>

\* findTagMetaBulk(tagList): name and dictionary both in the query, and no
\* index on the entries.
FindTagMetaBulk(s, tagList) ==
    /\ CanStart(s)
    /\ Find(s, "findTagMetaBulk", "tagMeta", tagList, {}, "exact")
    /\ UNCHANGED <<build, overlap, files, dirs, detached, _client, _drizzle,
                   _isOpening, _dbPath, _isOpen, opened>>

\* getDictionaryCounts(): the stores counted, in the order of the code.
CountedStores == <<"terms", "kanji", "termMeta", "kanjiMeta", "tagMeta", "media">>

\* SELECT count(*) FROM store WHERE dictionary = name.
CountRows(c, st, name) ==
    Len(SelectSeq(c.rows[st], LAMBDA r : r.dictionary = name))

\* The stores counted, as a set.
CountedSet == {CountedStores[k] : k \in 1..Len(CountedStores)}

\* The count queries getDictionaryCounts() awaits: for each name in turn the
\* six stores in the order of the code.
CountStatements(dictionaryNames) ==
    [n \in 1..(Len(dictionaryNames) * Len(CountedStores)) |->
        [store |-> CountedStores[((n - 1) % Len(CountedStores)) + 1],
         name |-> dictionaryNames[((n - 1) \div Len(CountedStores)) + 1]]]

\* The count expression of a count query: count() of drizzle-orm in
\* part_006; db.fn.count() in part_003, where db.fn is undefined on the
\* drizzle instance, so that evaluating the expression throws.
CountExpression == IF build = "libsql" THEN "ok" ELSE "TypeError"

\* getDictionaryCounts(): the count group of the k-th dictionary name, from
\* the counts in the order they were awaited.  part_006 starts the group as
\* {}, part_003 as {dictionary}.
CountGroup(dictionary, acc, k) ==
    [key \in (IF build = "libsql" THEN CountedSet ELSE CountedSet \cup {"dictionary"}) |->
        IF key = "dictionary" THEN dictionary
        ELSE acc[(k - 1) * Len(CountedStores)
                 + (CHOOSE j \in 1..Len(CountedStores) : CountedStores[j] = key)]]

\* getDictionaryCounts(): total before the groups are added: the six stores
\* at zero in part_006, {dictionary: 'total'} in part_003.
TotalStart ==
    IF build = "libsql" THEN [key \in CountedSet |-> 0]
    ELSE [key \in {"dictionary"} |-> "total"]

\* One turn of the loop over counts: part_006 adds the six stores of the
\* group; part_003 adds every key of the group but dictionary, starting a
\* key that total does not have at zero.
AddGroup(total, group) ==
    LET keys == IF build = "libsql" THEN CountedSet ELSE DOMAIN group \ {"dictionary"}
    IN  [key \in DOMAIN total \cup keys |->
            IF key \notin keys THEN total[key]
            ELSE (IF key \in DOMAIN total THEN total[key] ELSE 0) + group[key]]

RECURSIVE SumInto(_, _)
SumInto(total, counts) ==
    IF counts = <<>> THEN total
    ELSE SumInto(AddGroup(total, Head(counts)), Tail(counts))

\* getDictionaryCounts(): total, the groups added in order.
SumGroups(counts) == SumInto(TotalStart, counts)

\* The value getDictionaryCounts() returns.  total is <<>> for null and
\* <<group>> otherwise.
CountsValue(input, counts) ==
    [input EXCEPT !.counts = counts,
                  !.total = IF input.getTotal THEN <<SumGroups(counts)>> ELSE <<>>]

\* getDictionaryCounts(dictionaryNames, getTotal): the call, up to the await
\* of the first count.  With no name it awaits nothing; with a name, the
\* first query is built before it is awaited, and the call throws there when
\* the count expression does.
GetDictionaryCounts(s, dictionaryNames, getTotal) ==
    /\ CanStart(s)
    /\ LET input == [names |-> dictionaryNames, getTotal |-> getTotal,
                     counts |-> <<>>, total |-> <<>>]
       IN  IF GetDb(_drizzle) = "ok" /\ dictionaryNames = <<>>
           THEN /\ last' = Step("getDictionaryCounts", "call", "ok",
                                CountsValue(input, <<>>))
                /\ calls' = calls
           ELSE IF GetDb(_drizzle) = "ok" /\ CountExpression # "ok"
           THEN /\ last' = Step("getDictionaryCounts", "call", CountExpression, input)
                /\ calls' = calls
           ELSE ReadCall(s, "getDictionaryCounts", input,
                         CountStatements(dictionaryNames))
    /\ UNCHANGED <<build, overlap, files, dirs, detached, _client, _drizzle,
                   _isOpening, _dbPath, _isOpen, opened>>

\* What the statement a read operation awaits gives on store content c.
RowsRead(op, input, stmt, c) ==
    CASE op = "getDictionaryInfo" ->
            [i \in 1..Len(c.rows[stmt.store]) |-> DecodeSummary(c.rows[stmt.store][i])]
      [] op = "dictionaryExists" ->
            <<\E i \in 1..Len(c.rows[stmt.store]) :
                 c.rows[stmt.store][i].title = input.title>>
      [] op = "getDictionaryCounts" -> <<CountRows(c, stmt.store, stmt.name)>>
      [] OTHER ->
            FindAt(op, c.rows[stmt.store], stmt.key, stmt.i, input.dictionaries,
                   input.matchType)

\* The outcome of the statement a read operation awaits.  In findTermsBulk()
\* a match type without a case leaves query undefined, and iterating the
\* awaited undefined throws; the driver refuses a statement on a closed
\* handle; SQLite fails on a store without the table.
StatementOutcome(f) ==
    IF f.op = "findTermsBulk" /\ f.arg[1].matchType \notin KnownMatchTypes
    THEN "TypeError"
    ELSE IF f.db = "closed" THEN "ConnectionClosed"
    ELSE IF ~Queryable(HandleContent) THEN "SqlError"
    ELSE "ok"

\* The value a read operation returns (what it was called with, when it
\* throws).
ReadValue(op, input, acc, out) ==
    IF out # "ok" THEN (IF op \in {"getDictionaryInfo", "dictionaryExists"}
                        THEN NoVal ELSE input)
    ELSE CASE op = "getDictionaryInfo" -> acc
           [] op = "dictionaryExists" -> <<input.title, acc[1]>>
           [] op = "getDictionaryCounts" ->
                 CountsValue(input, [k \in 1..Len(input.names) |->
                                           CountGroup(input.names[k], acc, k)])
           [] OTHER -> [input EXCEPT !.result = acc]

ReadOps == {"getDictionaryInfo", "dictionaryExists", "getDictionaryCounts",
            "findTermsBulk", "findTermsExactBulk", "findKanjiBulk",
            "findTermMetaBulk", "findKanjiMetaBulk", "findTagMetaBulk"}

\* The statement a read operation awaits runs, on the instance the call took
\* from getDb(), and what it gives is collected.
ReadStatement(s) ==
    /\ calls[s].op \in ReadOps /\ calls[s].pc = "statement"
    /\ LET f == calls[s]
           out == StatementOutcome(f)
       IN  /\ calls' =
                 IF out # "ok"
                 THEN [calls EXCEPT ![s].pc = "done", ![s].out = out]
                 ELSE [calls EXCEPT
                          ![s].acc = @ \o RowsRead(f.op, f.arg[1], Head(f.todo),
                                                   HandleContent),
                          ![s].todo = Tail(@),
                          ![s].pc = IF Tail(f.todo) = <<>> THEN "done" ELSE "statement",
                          ![s].out = IF Tail(f.todo) = <<>> THEN "ok" ELSE "-"]
           /\ last' = Step(f.op, "statement", "pending", f.arg[1])
    /\ UNCHANGED <<build, overlap, files, dirs, detached, _client, _drizzle,
                   _isOpening, _dbPath, _isOpen, opened>>

\* A read operation resumed after its last statement, or after the one that
\* failed: it returns its value, or throws.
ReadResume(s) ==
    /\ calls[s].op \in ReadOps /\ calls[s].pc = "done"
    /\ calls' = [calls EXCEPT ![s] = IdleFrame]
    /\ last' = Step(calls[s].op, "resume", calls[s].out,
                    ReadValue(calls[s].op, calls[s].arg[1], calls[s].acc,
                              calls[s].out))
    /\ UNCHANGED <<build, overlap, files, dirs, detached, _client, _drizzle,
                   _isOpening, _dbPath, _isOpen, opened>>

-----------------------------------------------------------------------------
(* Initial states and specifications *)

\* A store that already holds rows.
StoredSample == InsertRow(FreshStore, "terms", CHOOSE i \in ItemsOf("terms") : TRUE)

\* A store created before the indexes were added.
TablesOnly == [FreshStore EXCEPT !.indexes = FALSE]

InitContents == {NoFile, EmptyFile, TablesOnly, FreshStore, StoredSample, GarbageFile}

\* The state after new DictionaryDatabase(): both constructors.
InitObjects ==
    /\ build \in Builds
    /\ detached = NoFile
    /\ _client = NoHandle
    /\ _drizzle = FALSE
    /\ _isOpening = FALSE
    /\ _dbPath = ""
    /\ _isOpen = FALSE
    /\ calls = [s \in Slots |-> IdleFrame]
    /\ opened = FALSE
    /\ last = Step("new", "call", "ok", NoVal)

\* The engine's store is in any state without rows (rows come from bulkAdd);
\* nothing else is on disk.
InitEngineFiles ==
    /\ \E c \in InitContents \ {StoredSample} :
          files = [p \in Paths |-> IF p = "dict.sqlite" THEN c ELSE NoFile]
    /\ dirs = {}

\* Both stores are in any state; the second needs its directory.
InitAllFiles ==
    /\ dirs \in {{}, {DataDir}}
    /\ \E c \in InitContents, d \in {NoFile, EmptyFile, StoredSample} :
          /\ d.kind # "none" => DataDir \in dirs
          /\ files = [p \in Paths |-> IF p = "dict.sqlite" THEN c ELSE d]

\* The engine used as section 5 of the spec expects: one call at a time.
Init == InitObjects /\ InitEngineFiles /\ overlap = 1

Next ==
    \E s \in Slots :
        \/ Prepare(s)
        \/ PrepareResume(s)
        \/ Close(s)
        \/ CloseResume(s)
        \/ Purge(s)
        \/ PurgeAfterClose(s)
        \/ PurgeRm(s)
        \/ PurgeAfterRm(s)
        \/ PurgeAfterPrepare(s)
        \/ \E st \in StoreNames :
              \E item \in ItemsOf(st) : BulkAdd(s, st, <<item>>, 0, 1)
        \/ BulkAddInsert(s)
        \/ BulkAddResume(s)
        \/ GetDictionaryInfo(s)
        \/ \E title \in Titles : DictionaryExists(s, title)
        \/ ReadStatement(s)
        \/ ReadResume(s)

Spec == Init /\ [][Next]_vars

\* The Connection Manager used on its own, calls overlapping.
InitManager == InitObjects /\ InitAllFiles /\ overlap = MaxCalls

NextManager ==
    \E s \in Slots :
        \/ \E name \in OpenNames(build) : MgrOpen(s, name)
        \/ MgrOpenMkdir(s)
        \/ MgrOpenResume(s)
        \/ MgrClose(s)
        \/ MgrGetDb(s)
        \/ \E name \in DeleteNames : MgrDelete(s, name)
        \/ MgrDeleteRm(s)
        \/ MgrDeleteResume(s)

SpecManager == InitManager /\ [][NextManager]_vars

\* The engine with calls overlapping, its manager also opened directly.
InitConcurrent == InitObjects /\ InitAllFiles /\ overlap = MaxCalls

NextConcurrent ==
    \E s \in Slots :
        \/ Prepare(s)
        \/ PrepareResume(s)
        \/ Close(s)
        \/ CloseResume(s)
        \/ Purge(s)
        \/ PurgeAfterClose(s)
        \/ PurgeRm(s)
        \/ PurgeAfterRm(s)
        \/ PurgeAfterPrepare(s)
        \/ \E name \in OpenNames(build) : MgrOpen(s, name)
        \/ MgrOpenMkdir(s)
        \/ MgrOpenResume(s)

SpecConcurrent == InitConcurrent /\ [][NextConcurrent]_vars

-----------------------------------------------------------------------------
(* Lookups: inputs and specifications *)

\* The Dictionary-Sets looked up in (has(name) is membership) and the match
\* types findTermsBulk() is called with.
DictionarySets == {{"D1"}, {"D2"}, {"D1", "D2"}}
MatchTypes == {"exact", "prefix", "suffix", "anywhere"}

\* Term items: one expression under both dictionaries, the same in another
\* letter case and with another reading, and the empty string; one item
\* brings reverse columns of its own.
TermItems ==
    {[dictionary |-> "D1", expression |-> <<"a", "b">>, reading |-> <<"r">>,
      sequence |-> <<7>>],
     [dictionary |-> "D2", expression |-> <<"a", "b">>, reading |-> <<"r">>,
      sequence |-> NoSequence],
     [dictionary |-> "D1", expression |-> <<"A", "b">>, reading |-> <<"q">>,
      sequence |-> NoSequence, expressionReverse |-> <<"q">>,
      readingReverse |-> <<"b">>],
     [dictionary |-> "D1", expression |-> <<>>, reading |-> <<>>,
      sequence |-> <<0>>]}

QueryTerms == {<<>>, <<"a">>, <<"b">>, <<"a", "b">>, <<"_">>}
TermLists ==
    {<<>>, <<<<"a", "b">>, <<"a", "b">>>>, <<<<"b">>, <<"a", "b">>>>}
    \cup {<<t>> : t \in QueryTerms}

QueryPairs == {[term |-> <<"a", "b">>, reading |-> <<"r">>],
               [term |-> <<"a", "b">>, reading |-> <<"q">>]}
PairLists ==
    {<<>>} \cup {<<p>> : p \in QueryPairs} \cup {<<p, q>> : p, q \in QueryPairs}

\* The items of the other stores: a key under both dictionaries and a
\* second key.
LookupItemsOf(st) ==
    CASE st = "terms" ->
            {[dictionary |-> d, expression |-> <<"a", "b">>, reading |-> <<"r">>,
              sequence |-> NoSequence] : d \in Titles}
      [] st = "termMeta" ->
            {[dictionary |-> "D1", expression |-> <<"a", "b">>, mode |-> "freq"],
             [dictionary |-> "D1", term |-> <<"a", "b">>, mode |-> "freq"]}
      [] st = "kanji" ->
            {[dictionary |-> d, character |-> <<"k">>] : d \in Titles}
            \cup {[dictionary |-> "D1", character |-> <<"j">>]}
      [] st = "kanjiMeta" ->
            {[dictionary |-> "D2", character |-> <<"k">>, mode |-> "freq"]}
      [] st = "tagMeta" ->
            {[dictionary |-> "D1", name |-> <<"n">>, category |-> "c", order |-> 1,
              notes |-> "x", score |-> 0]}
      [] st = "media" -> {[dictionary |-> "D1", path |-> "p.png"]}

KanjiLists ==
    {<<>>, <<<<"k">>>>, <<<<"k">>, <<"j">>>>, <<<<"j">>, <<"k">>>>, <<<<"k">>, <<"k">>>>}
MetaTermLists == {<<>>, <<<<"a", "b">>>>, <<<<"b">>, <<"a", "b">>>>}
MetaKanjiLists == {<<>>, <<<<"k">>>>, <<<<"j">>, <<"k">>>>}
TagLists ==
    {<<>>, <<[name |-> <<"n">>, dictionary |-> "D1"]>>,
     <<[name |-> <<"n">>, dictionary |-> "D2"], [name |-> <<"n">>, dictionary |-> "D1"]>>}
NameLists == {<<>>, <<"D1">>, <<"D1", "D2">>, <<"D2", "D2">>}

\* The engine's store holds the schema (created by an earlier run or by the
\* migration tool) or does not exist yet; it has no row.
InitLookupFiles ==
    /\ \E c \in {NoFile, FreshStore} :
          files = [p \in Paths |-> IF p = "dict.sqlite" THEN c ELSE NoFile]
    /\ dirs = {}

\* Term lookups: terms added one bulkAdd() at a time, then looked up.
InitTerms == InitObjects /\ InitLookupFiles /\ overlap = 1

NextTerms ==
    \E s \in Slots :
        \/ Prepare(s)
        \/ PrepareResume(s)
        \/ Close(s)
        \/ CloseResume(s)
        \/ \E item \in TermItems : BulkAdd(s, "terms", <<item>>, 0, 1)
        \/ BulkAddInsert(s)
        \/ BulkAddResume(s)
        \/ \E termList \in TermLists, dictionaries \in DictionarySets,
              matchType \in MatchTypes :
              FindTermsBulk(s, termList, dictionaries, matchType)
        \/ \E termList \in PairLists, dictionaries \in DictionarySets :
              FindTermsExactBulk(s, termList, dictionaries)
        \/ ReadStatement(s)
        \/ ReadResume(s)

SpecTerms == InitTerms /\ [][NextTerms]_vars

\* The term lists and pair lists looked up besides those of SpecTerms: no
\* key, one key, two keys of which one or both have rows.
LookupTermLists ==
    {<<>>, <<<<"a", "b">>>>, <<<<"b">>, <<"a", "b">>>>, <<<<"a">>, <<"b">>>>}
LookupPairLists ==
    {<<>>, <<[term |-> <<"a", "b">>, reading |-> <<"r">>]>>,
     <<[term |-> <<"a", "b">>, reading |-> <<"q">>],
       [term |-> <<"a", "b">>, reading |-> <<"r">>]>>,
     <<[term |-> <<"a", "b">>, reading |-> <<"r">>],
       [term |-> <<"a", "b">>, reading |-> <<"r">>]>>}

\* A store an earlier run has filled: three terms and two kanji under D1.
\* (bulkAdd() is followed up to MaxRows rows; this store has more.)
CountedSample ==
    LET term == [dictionary |-> "D1", expression |-> <<"a", "b">>,
                 reading |-> <<"r">>, sequence |-> NoSequence]
        terms == InsertRow(InsertRow(InsertRow(FreshStore, "terms", term),
                                     "terms", term), "terms", term)
    IN  InsertRow(InsertRow(terms, "kanji", [dictionary |-> "D1", character |-> <<"k">>]),
                  "kanji", [dictionary |-> "D1", character |-> <<"j">>])

\* Lookups in every store, and the row counts.
InitLookup ==
    /\ InitObjects
    /\ \E c \in {NoFile, FreshStore, CountedSample} :
          files = [p \in Paths |-> IF p = "dict.sqlite" THEN c ELSE NoFile]
    /\ dirs = {}
    /\ overlap = 1

NextLookup ==
    \E s \in Slots :
        \/ Prepare(s)
        \/ PrepareResume(s)
        \/ Close(s)
        \/ CloseResume(s)
        \/ \E st \in StoreNames \ {"dictionaries"} :
              \E item \in LookupItemsOf(st) : BulkAdd(s, st, <<item>>, 0, 1)
        \/ BulkAddInsert(s)
        \/ BulkAddResume(s)
        \/ \E termList \in LookupTermLists, dictionaries \in DictionarySets,
              matchType \in MatchTypes :
              FindTermsBulk(s, termList, dictionaries, matchType)
        \/ \E termList \in LookupPairLists, dictionaries \in DictionarySets :
              FindTermsExactBulk(s, termList, dictionaries)
        \/ \E kanjiList \in KanjiLists, dictionaries \in DictionarySets :
              FindKanjiBulk(s, kanjiList, dictionaries)
        \/ \E termList \in MetaTermLists, dictionaries \in DictionarySets :
              FindTermMetaBulk(s, termList, dictionaries)
        \/ \E kanjiList \in MetaKanjiLists, dictionaries \in DictionarySets :
              FindKanjiMetaBulk(s, kanjiList, dictionaries)
        \/ \E tagList \in TagLists : FindTagMetaBulk(s, tagList)
        \/ \E dictionaryNames \in NameLists, getTotal \in BOOLEAN :
              GetDictionaryCounts(s, dictionaryNames, getTotal)
        \/ ReadStatement(s)
        \/ ReadResume(s)

SpecLookup == InitLookup /\ [][NextLookup]_vars

-----------------------------------------------------------------------------
(* Tag lookups: inputs and specification *)

\* One name under both dictionaries with different data, and a second name.
TagItems ==
    {[dictionary |-> "D1", name |-> <<"n">>, category |-> "c", order |-> 1,
      notes |-> "x", score |-> 0],
     [dictionary |-> "D2", name |-> <<"n">>, category |-> "d", order |-> 2,
      notes |-> "", score |-> 5],
     [dictionary |-> "D1", name |-> <<"m">>, category |-> "c", order |-> 0,
      notes |-> "y", score |-> 1]}

TagPairs == {[name |-> n, dictionary |-> d] : n \in {<<"n">>, <<"m">>}, d \in Titles}

TagPairLists == {<<>>} \cup {<<p>> : p \in TagPairs} \cup {<<p, q>> : p, q \in TagPairs}

\* A store in which an earlier run of the libsql build has stored a tag
\* (both builds keep the store in dict.sqlite).
TaggedStore ==
    [FreshStore EXCEPT !.rows["tagMeta"] =
        <<[id |-> 1, dictionary |-> "D1", name |-> <<"n">>, category |-> "c",
           orderValue |-> <<1>>, notes |-> "x", score |-> 0]>>]

InitTags ==
    /\ InitObjects
    /\ \E c \in {NoFile, FreshStore, TaggedStore} :
          files = [p \in Paths |-> IF p = "dict.sqlite" THEN c ELSE NoFile]
    /\ dirs = {}
    /\ overlap = 1

NextTags ==
    \E s \in Slots :
        \/ Prepare(s)
        \/ PrepareResume(s)
        \/ \E item \in TagItems : BulkAdd(s, "tagMeta", <<item>>, 0, 1)
        \/ BulkAddInsert(s)
        \/ BulkAddResume(s)
        \/ \E tagList \in TagPairLists : FindTagMetaBulk(s, tagList)
        \/ ReadStatement(s)
        \/ ReadResume(s)

SpecTags == InitTags /\ [][NextTags]_vars

-----------------------------------------------------------------------------
(* String reversal: inputs and specification *)

MaxUnits == 4

CodeUnits == {"a"} \cup HighSurrogates \cup LowSurrogates

\* _reverseString(str) on any string of up to MaxUnits code units.
ReverseString(str) ==
    /\ last' = Step("_reverseString", "call", "ok", <<str, _reverseString(str)>>)
    /\ UNCHANGED <<build, overlap, files, dirs, detached, _client, _drizzle,
                   _isOpening, _dbPath, _isOpen, calls, opened>>

\* _reverseString() on the string the last call returned.
ReverseAgain ==
    /\ last.op = "_reverseString" /\ last.step = "call"
    /\ last' = Step("_reverseString", "again", "ok",
                    <<last.val[1], _reverseString(last.val[2])>>)
    /\ UNCHANGED <<build, overlap, files, dirs, detached, _client, _drizzle,
                   _isOpening, _dbPath, _isOpen, calls, opened>>

InitReverse == InitObjects /\ InitLookupFiles /\ overlap = 1

NextReverse ==
    \/ \E str \in SeqsUpTo(CodeUnits, MaxUnits) : ReverseString(str)
    \/ ReverseAgain

SpecReverse == InitReverse /\ [][NextReverse]_vars

-----------------------------------------------------------------------------
(* bulkAdd slices: inputs and specification *)

\* The stores slices are added to: one with a unique key, one with ids.
SliceStores == {"dictionaries", "terms"}

InitBulk == InitObjects /\ InitLookupFiles /\ overlap = 1

NextBulk ==
    \E s \in Slots :
        \/ Prepare(s)
        \/ PrepareResume(s)
        \/ \E st \in SliceStores, start \in 0..MaxItems, count \in (-1)..MaxItems :
              \E items \in SeqsUpTo(ItemsOf(st), MaxItems) :
                  BulkAdd(s, st, items, start, count)
        \/ BulkAddInsert(s)
        \/ BulkAddResume(s)

SpecBulk == InitBulk /\ [][NextBulk]_vars

-----------------------------------------------------------------------------
(* Data operations with calls overlapping: inputs and specification *)

\* Two term items under one expression, added in one call.
OverlapItems ==
    <<[dictionary |-> "D1", expression |-> <<"a", "b">>, reading |-> <<"r">>,
       sequence |-> <<7>>],
      [dictionary |-> "D2", expression |-> <<"a", "b">>, reading |-> <<"r">>,
       sequence |-> NoSequence]>>

\* The caller does not await a call before it makes the next one; the
\* manager's deleteDatabase() is called on the engine's store as well.
InitOverlap == InitObjects /\ InitLookupFiles /\ overlap = MaxCalls

NextOverlap ==
    \E s \in Slots :
        \/ Prepare(s)
        \/ PrepareResume(s)
        \/ Close(s)
        \/ CloseResume(s)
        \/ BulkAdd(s, "terms", OverlapItems, 0, 2)
        \/ BulkAdd(s, "dictionaries", <<DictItem("D1")>>, 0, 1)
        \/ BulkAddInsert(s)
        \/ BulkAddResume(s)
        \/ FindTermsBulk(s, <<<<"a", "b">>>>, {"D1", "D2"}, "exact")
        \/ GetDictionaryInfo(s)
        \/ DictionaryExists(s, "D1")
        \/ ReadStatement(s)
        \/ ReadResume(s)
        \/ MgrDelete(s, "dict.sqlite")
        \/ MgrDeleteRm(s)
        \/ MgrDeleteResume(s)

SpecOverlap == InitOverlap /\ [][NextOverlap]_vars

-----------------------------------------------------------------------------
(* Claims C1 to C10: connection and engine lifecycle *)

ManagerUnchanged ==
    UNCHANGED <<_client, _drizzle, _isOpening, files, dirs, detached>>

OpenInFlight == \E t \in Slots : calls[t].op = "open"

\* C1: while an open() has succeeded and close() has not been called since,
\* a further open() fails with AlreadyOpen, and the handle stays held and
\* usable: getDb() still succeeds and isOpening() is false.
C1_SecondOpenFails ==
    [][(opened /\ last'.op = "open" /\ last'.step = "call")
        => /\ last'.out = "AlreadyOpen"
           /\ _client' = _client
           /\ _client'.open
           /\ GetDb(_drizzle') = "ok"
           /\ ~_isOpening'
           /\ opened']_vars

C1_Witness ==
    /\ last.op = "open" /\ last.out = "AlreadyOpen"
    /\ opened /\ _client.open /\ _drizzle

\* C2: an open() that starts while another open() is in flight fails with
\* AlreadyOpening and leaves the open in flight as it was (its frame, the flag
\* and the manager's fields), able to go on; a step never replaces a held
\* handle by another; and isOpening() is false whenever no open() is in flight.
C2_SingleFlight ==
    /\ []((~OpenInFlight) => ~_isOpening)
    /\ [](\A t \in Slots :
            calls[t].op = "open" => ENABLED (MgrOpenMkdir(t) \/ MgrOpenResume(t)))
    /\ [][/\ (OpenInFlight /\ last'.op = "open" /\ last'.step = "call")
             => /\ last'.out = "AlreadyOpening"
                /\ calls' = calls
                /\ _isOpening'
                /\ ManagerUnchanged
          /\ (_client.open /\ _client'.open) => _client' = _client]_vars

C2_Witness ==
    /\ last.op = "open" /\ last.out = "AlreadyOpening"
    /\ \E t \in Slots : calls[t].op = "open" /\ calls[t].pc = "mkdir"
    /\ _isOpening

\* C3: purge() and open() never run concurrently: while a purge() is between
\* its close step and the end of its re-prepare no other call holds the
\* handle, so the store is never deleted under an open handle and purge()'s
\* own reopen never fails with AlreadyOpen.
C3_PurgeExcludesOpen ==
    /\ \A s \in Slots :
          (calls[s].op = "purge" /\ calls[s].pc \in {"rm", "rmdone"}) => ~_client.open
    /\ detached.kind = "none"
    /\ ~(last.op = "purge" /\ last.out = "AlreadyOpen")

\* C4: a purge() that completes, reporting the deletion as done, leaves every
\* store empty: the store the engine then reads has no row.
C4_PurgeEmptiesStore ==
    (last.op = "purge" /\ last.out = "true") => HandleContent.rows = NoRows

\* C5: purge() reports the deletion step by its return value and never by a
\* fault: after the removal, whatever its outcome, the call goes on to the
\* re-prepare; it returns true iff deleteDatabase() did not fail; and when it
\* returns, either value, the engine is prepared and the handle is held.
C5_PurgeReportsDeletion ==
    [][\A s \in Slots :
          /\ (calls[s].op = "purge" /\ calls[s].pc = "rm" /\ calls'[s] # calls[s])
             => /\ calls'[s].op = "purge" /\ calls'[s].pc = "rmdone"
                /\ last'.out = "pending"
          /\ (calls[s].op = "purge" /\ calls[s].pc = "rmdone" /\ calls'[s] # calls[s])
             => \/ calls'[s].pc = "prepare" /\ _client'.open
                \/ last'.out \in {"AlreadyOpen", "AlreadyOpening", "IoError", "SqlError"}
          /\ (calls[s].op = "purge" /\ calls[s].pc = "prepare" /\ calls'[s] # calls[s])
             => /\ last'.op = "purge"
                /\ last'.out = (IF calls[s].rm = "EIO" THEN "false" ELSE "true")
                /\ _isOpen' /\ _client'.open /\ GetDb(_drizzle') = "ok"]_vars

C5_Witness ==
    /\ last.op = "purge" /\ last.out = "false"
    /\ _isOpen /\ _client.open

\* C6: a purge() called while isOpening() is true fails with
\* CannotPurgeWhileOpening before doing anything: the handle is not closed,
\* the store is not deleted, the ready flag is unchanged and no re-prepare
\* is started.
C6_PurgeWhileOpening ==
    [][(_isOpening /\ last'.op = "purge" /\ last'.step = "call")
        => /\ last'.out = "CannotPurgeWhileOpening"
           /\ ManagerUnchanged
           /\ UNCHANGED <<_isOpen, calls, opened>>]_vars

C6_Witness ==
    /\ last.op = "purge" /\ last.out = "CannotPurgeWhileOpening"
    /\ _isOpening /\ OpenInFlight

\* C7: a successful open() leaves the store with all tables and all indexes.
C7_OpenEnsuresSchema ==
    (last.op = "open" /\ last.out = "ok")
        => /\ files[_client.path].tables
           /\ files[_client.path].indexes

\* C8: getDb() fails with NotOpen in every state where no open() has
\* succeeded since construction or since the last close().
C8_NotOpenUnlessOpened == (~opened) => GetDb(_drizzle) = "NotOpen"

\* C9: close() with a handle held releases it (getDb() then fails with
\* NotOpen and the guards of a new open() pass); with no handle held it
\* changes nothing; it raises no error; and the engine's close() leaves
\* isPrepared() false.
C9_CloseIdempotent ==
    [][/\ (last'.op = "close" /\ last'.step = "call")
          => /\ last'.out = "pending"
             /\ ~_client'.open
             /\ GetDb(_drizzle') = "NotOpen"
             /\ OpenGuard(_client', _isOpening') = "pass"
             /\ (~_client.open) => (ManagerUnchanged /\ _isOpen' = _isOpen)
       /\ (last'.op = "close" /\ last'.step = "resume")
          => /\ last'.out = "ok"
             /\ ~_isOpen'
             /\ ManagerUnchanged]_vars

C9_Witness ==
    /\ last.op = "close" /\ last.step = "resume" /\ last.out = "ok"
    /\ ~_isOpen /\ ~_client.open /\ ~opened

\* C10: deleteDatabase(name): a file that is removed is gone afterwards; a
\* file that does not exist makes the call succeed silently; any other
\* failure of the removal reaches the caller; and the call touches neither
\* the held handle nor the isOpening flag.
C10_DeleteBackingStore ==
    [][(last'.op = "deleteDatabase" /\ last' # last)
        => LET name == last'.val[1]
               rm == last'.val[2]
           IN  /\ last'.step = "call" => files' = files
               /\ last'.step = "rm" =>
                     /\ rm = "removed" =>
                           (files[name].kind # "none" /\ files'[name].kind = "none")
                     /\ rm \in {"ENOENT", "EIO"} => files' = files
                     /\ (name \notin Paths \/ files[name].kind = "none")
                           => rm # "removed"
               /\ last'.step = "resume" =>
                     /\ files' = files
                     /\ rm \in {"removed", "ENOENT"} => last'.out = "ok"
                     /\ rm = "EIO" => last'.out = "IoError"
               /\ UNCHANGED <<_client, _drizzle, _isOpening>>]_vars

C10_Witness ==
    /\ last.op = "deleteDatabase" /\ last.out = "ok"
    /\ last.val[2] = "ENOENT"

-----------------------------------------------------------------------------
(* Claims C11 to C20: lookups and counts *)

Finders == {"findTermsBulk", "findTermsExactBulk", "findKanjiBulk",
            "findTermMetaBulk", "findKanjiMetaBulk", "findTagMetaBulk"}

ScopedFinders == Finders \ {"findTagMetaBulk"}

\* The step just taken is a finder call that returned a result.
Found(op) == last.op = op /\ last.out = "ok"

\* The rows of a store as the handle sees them.
StoredRows(st) == HandleContent.rows[st]

\* The store a finder reads.
StoreOf(op) ==
    CASE op \in {"findTermsBulk", "findTermsExactBulk"} -> "terms"
      [] op = "findKanjiBulk" -> "kanji"
      [] op = "findTermMetaBulk" -> "termMeta"
      [] op = "findKanjiMetaBulk" -> "kanjiMeta"
      [] op = "findTagMetaBulk" -> "tagMeta"

\* The row has the key looked up (exact lookups).
HasKey(op, key, row) ==
    CASE op = "findTermsBulk" -> row.expression = key
      [] op = "findTermsExactBulk" -> row.expression = key.term /\ row.reading = key.reading
      [] op = "findKanjiBulk" -> row.character = key
      [] op = "findTermMetaBulk" -> row.term = key
      [] op = "findKanjiMetaBulk" -> row.character = key

\* The key an entry reports.
EntryHasKey(op, key, e) ==
    CASE op = "findTermsBulk" -> e.term = key
      [] op = "findTermsExactBulk" -> e.term = key.term /\ e.reading = key.reading
      [] op = "findKanjiBulk" -> e.character = key
      [] op = "findTermMetaBulk" -> e.term = key
      [] op = "findKanjiMetaBulk" -> e.character = key

\* C11: a finder called with an empty list returns an empty list in every
\* lifecycle state, a never prepared or closed engine included, and the call
\* changes neither the store nor any field of the engine or its manager.
C11_EmptyInputShortCircuit ==
    /\ []((last.op \in Finders /\ last.val.list = <<>>)
            => (last.out = "ok" /\ last.val.result = <<>>))
    /\ [][(last'.op \in Finders /\ last'.val.list = <<>>)
            => UNCHANGED <<files, detached, _client, _drizzle, _isOpening,
                           _dbPath, _isOpen, calls, opened>>]_vars

C11_Witness ==
    /\ last.op = "findTagMetaBulk" /\ last.val.list = <<>>
    /\ last.out = "ok" /\ last.val.result = <<>>
    /\ ~_isOpen /\ GetDb(_drizzle) = "NotOpen"
    /\ TotalRows(files["dict.sqlite"]) > 0

\* C12: an exact lookup of one term returns one entry for each stored term
\* row whose expression is the term and whose dictionary is in the set, and
\* nothing else; each entry has the row's expression as term, matchType
\* 'exact', matchSource 'term', index 0, and sequence 0 for a row without one.
C12_ExactLookup ==
    (Found("findTermsBulk") /\ last.val.matchType = "exact" /\ Len(last.val.list) = 1)
    => LET t == last.val.list[1]
           rows == StoredRows("terms")
           res == last.val.result
           want == {j \in 1..Len(rows) :
                       rows[j].expression = t /\ rows[j].dictionary \in last.val.dictionaries}
       IN  /\ Len(res) = Cardinality(want)
           /\ {res[k].id : k \in 1..Len(res)} = {rows[j].id : j \in want}
           /\ \A k \in 1..Len(res) :
                 /\ res[k].term = t
                 /\ res[k].matchType = "exact" /\ res[k].matchSource = "term"
                 /\ res[k].index = 0
                 /\ \A j \in want :
                       rows[j].id = res[k].id =>
                          /\ res[k].dictionary = rows[j].dictionary
                          /\ res[k].reading = rows[j].reading
                          /\ rows[j].sequence = NoSequence => res[k].sequence = 0
                          /\ rows[j].sequence # NoSequence =>
                                res[k].sequence = rows[j].sequence[1]

C12_Witness ==
    /\ Found("findTermsBulk") /\ last.val.matchType = "exact"
    /\ last.val.list = <<<<"a", "b">>>>
    /\ Len(last.val.result) = 1
    /\ last.val.result[1].sequence = 0
    /\ Len(StoredRows("terms")) = 2
    /\ \E j \in 1..2 : StoredRows("terms")[j].expression = <<"A", "b">>

\* The row matches the key looked up: under the match type for
\* findTermsBulk(), by equality for the other finders.
KeyMatches(op, matchType, key, row) ==
    IF op = "findTermsBulk" THEN TermQuery(matchType, key, row)
    ELSE HasKey(op, key, row)

\* C13: whatever finder, key list, match type and set: every entry returned
\* is of a dictionary in the set, and each stored row matching a key and of
\* a dictionary in the set is returned: for each input position and each
\* dictionary there are as many entries as matching rows when the
\* dictionary is in the set, and none when it is not.  One expression stored
\* under two dictionaries and looked up in one of them gives one match per
\* key.
C13_DictionaryScoping ==
    \A op \in ScopedFinders :
        Found(op)
        => LET rows == StoredRows(StoreOf(op))
               res == last.val.result
               list == last.val.list
           IN  /\ \A k \in 1..Len(res) : res[k].dictionary \in last.val.dictionaries
               /\ \A i \in 1..Len(list), d \in Titles :
                     Cardinality({k \in 1..Len(res) :
                                     res[k].index = i - 1 /\ res[k].dictionary = d})
                     = IF d \in last.val.dictionaries
                       THEN Cardinality({j \in 1..Len(rows) :
                                           /\ KeyMatches(op, last.val.matchType,
                                                         list[i], rows[j])
                                           /\ rows[j].dictionary = d})
                       ELSE 0

C13_Witness ==
    /\ Found("findTermsBulk") /\ last.val.matchType = "suffix"
    /\ last.val.list = <<<<"b">>, <<"a", "b">>>> /\ last.val.dictionaries = {"D2"}
    /\ Len(last.val.result) = 2
    /\ last.val.result[1].index = 0 /\ last.val.result[1].dictionary = "D2"
    /\ last.val.result[2].index = 1 /\ last.val.result[2].dictionary = "D2"
    /\ {StoredRows("terms")[j].dictionary : j \in 1..Len(StoredRows("terms"))}
          = {"D1", "D2"}
    /\ \A j \in 1..Len(StoredRows("terms")) :
          StoredRows("terms")[j].expression = <<"a", "b">>

\* String relations, stated directly.
StartsWith(str, t) == Len(t) <= Len(str) /\ SubSeq(str, 1, Len(t)) = t

EndsWith(str, t) ==
    Len(t) <= Len(str) /\ SubSeq(str, Len(str) - Len(t) + 1, Len(str)) = t

Contains(str, t) ==
    \E k \in 1..(Len(str) + 1) :
        k + Len(t) - 1 <= Len(str) /\ SubSeq(str, k, k + Len(t) - 1) = t

RECURSIVE Reversed(_)
Reversed(str) == IF str = <<>> THEN <<>> ELSE Append(Reversed(Tail(str)), Head(str))

\* The ids of the stored term rows of an enabled dictionary whose expression
\* is in the relation named to the term looked up, and the ids returned.
Related(rel, str, t) ==
    CASE rel = "starts" -> StartsWith(str, t)
      [] rel = "ends" -> EndsWith(str, t)
      [] rel = "contains" -> Contains(str, t)

WantedIds(rel) ==
    LET rows == StoredRows("terms")
    IN  {rows[j].id : j \in {x \in 1..Len(rows) :
                                /\ rows[x].dictionary \in last.val.dictionaries
                                /\ Related(rel, rows[x].expression, last.val.list[1])}}

ReturnedIds == {last.val.result[k].id : k \in 1..Len(last.val.result)}

\* C14: a suffix lookup of one term returns the stored term rows of the
\* enabled dictionaries whose expression ends with the term, and no other,
\* for every expression and term, the empty string included.
C14_SuffixLookup ==
    (Found("findTermsBulk") /\ last.val.matchType = "suffix" /\ Len(last.val.list) = 1)
    => /\ ReturnedIds = WantedIds("ends")
       /\ Len(last.val.result) = Cardinality(ReturnedIds)

\* C15: a prefix lookup of one term returns the stored term rows of the
\* enabled dictionaries whose expression starts with the term as a literal
\* string, and no other, whatever the characters and the letter case.
C15_PrefixLookup ==
    (Found("findTermsBulk") /\ last.val.matchType = "prefix" /\ Len(last.val.list) = 1)
    => /\ ReturnedIds = WantedIds("starts")
       /\ Len(last.val.result) = Cardinality(ReturnedIds)

\* C16: findTermsBulk() called with match type 'anywhere' on a prepared
\* engine completes without error and returns the stored term rows of the
\* enabled dictionaries whose expression contains the term, each tagged
\* 'anywhere'.
C16_AnywhereLookup ==
    (/\ last.op = "findTermsBulk" /\ last.val.matchType = "anywhere"
     /\ Len(last.val.list) = 1
     /\ GetDb(_drizzle) = "ok" /\ Queryable(HandleContent))
    => /\ last.out = "ok"
       /\ ReturnedIds = WantedIds("contains")
       /\ \A k \in 1..Len(last.val.result) : last.val.result[k].matchType = "anywhere"

\* C17: every stored term row has expressionReverse = reverse(expression)
\* and readingReverse = reverse(reading), the empty string included,
\* whatever reverse columns the item brought.
C17_ReversedColumns ==
    \A p \in Paths :
        files[p].kind = "db" =>
            \A j \in 1..Len(files[p].rows["terms"]) :
                LET row == files[p].rows["terms"][j]
                IN  /\ row.expressionReverse = Reversed(row.expression)
                    /\ row.readingReverse = Reversed(row.reading)

\* C18: every entry of a finder carries the position of the key its row
\* matched, entries come in non-decreasing position order, and a key given
\* at two positions has its entries under both, whatever the storage order.
C18_IndexPreservation ==
    \A op \in ScopedFinders :
        (Found(op) /\ last.val.matchType \in KnownMatchTypes)
        => LET rows == StoredRows(StoreOf(op))
               res == last.val.result
               list == last.val.list
               At(i) == {k \in 1..Len(res) : res[k].index = i - 1}
           IN  /\ \A k \in 1..Len(res) :
                     /\ res[k].index \in 0..(Len(list) - 1)
                     /\ IF op = "findTermsBulk"
                        THEN \E j \in 1..Len(rows) :
                                /\ rows[j].id = res[k].id
                                /\ TermQuery(last.val.matchType,
                                             list[res[k].index + 1], rows[j])
                        ELSE EntryHasKey(op, list[res[k].index + 1], res[k])
               /\ \A k, n \in 1..Len(res) : k < n => res[k].index <= res[n].index
               /\ \A i, j \in 1..Len(list) :
                     list[i] = list[j] => Cardinality(At(i)) = Cardinality(At(j))

C18_Witness ==
    /\ Found("findKanjiBulk")
    /\ last.val.list = <<<<"j">>, <<"k">>>>
    /\ Len(StoredRows("kanji")) = 2
    /\ StoredRows("kanji")[1].character = <<"k">>
    /\ StoredRows("kanji")[2].character = <<"j">>
    /\ Len(last.val.result) = 2
    /\ last.val.result[1].index = 0 /\ last.val.result[1].character = <<"j">>
    /\ last.val.result[2].index = 1 /\ last.val.result[2].character = <<"k">>

\* C19: for each pair of findTermsExactBulk() the entries of its position are
\* the stored term rows of the enabled dictionaries that have both the
\* pair's term as expression and the pair's reading; every entry has
\* matchType 'exact' and matchSource 'term'.
C19_ExactPairLookup ==
    Found("findTermsExactBulk")
    => LET rows == StoredRows("terms")
           res == last.val.result
           list == last.val.list
       IN  /\ \A i \in 1..Len(list) :
                 LET at == {k \in 1..Len(res) : res[k].index = i - 1}
                     want == {j \in 1..Len(rows) :
                                 /\ rows[j].expression = list[i].term
                                 /\ rows[j].reading = list[i].reading
                                 /\ rows[j].dictionary \in last.val.dictionaries}
                 IN  /\ {res[k].id : k \in at} = {rows[j].id : j \in want}
                     /\ Cardinality(at) = Cardinality(want)
           /\ \A k \in 1..Len(res) :
                 /\ res[k].index \in 0..(Len(list) - 1)
                 /\ res[k].matchType = "exact" /\ res[k].matchSource = "term"

C19_Witness ==
    /\ Found("findTermsExactBulk")
    /\ last.val.list = <<[term |-> <<"a", "b">>, reading |-> <<"q">>],
                         [term |-> <<"a", "b">>, reading |-> <<"r">>]>>
    /\ Len(last.val.result) = 1
    /\ last.val.result[1].index = 1
    /\ \E j \in 1..Len(StoredRows("terms")) :
          StoredRows("terms")[j].reading = <<"q">>

AllCounted == {"terms", "kanji", "termMeta", "kanjiMeta", "tagMeta", "media"}

RowsUnder(st, name) ==
    Cardinality({j \in 1..Len(StoredRows(st)) : StoredRows(st)[j].dictionary = name})

RECURSIVE SumUnder(_, _)
SumUnder(st, names) ==
    IF names = <<>> THEN 0 ELSE RowsUnder(st, Head(names)) + SumUnder(st, Tail(names))

\* C20: getDictionaryCounts() called on a prepared engine whose store has
\* the tables returns, and gives for each name and each of the six stores
\* the number of stored rows of that dictionary; with includeTotal the total
\* has the six stores and is the sum over the names (zero for no name), and
\* without it the total is null.  A group or the total may carry other keys
\* besides the six stores.
C20_DictionaryCounts ==
    /\ (/\ last.op = "getDictionaryCounts" /\ last.out # "pending"
        /\ GetDb(_drizzle) = "ok" /\ Queryable(HandleContent))
       => last.out = "ok"
    /\ Found("getDictionaryCounts")
       => LET names == last.val.names
              counts == last.val.counts
              total == last.val.total
          IN  /\ Len(counts) = Len(names)
              /\ \A k \in 1..Len(names) :
                    /\ AllCounted \subseteq DOMAIN counts[k]
                    /\ \A st \in AllCounted : counts[k][st] = RowsUnder(st, names[k])
              /\ last.val.getTotal =>
                    /\ Len(total) = 1
                    /\ AllCounted \subseteq DOMAIN total[1]
                    /\ \A st \in AllCounted : total[1][st] = SumUnder(st, names)
              /\ ~last.val.getTotal => total = <<>>

-----------------------------------------------------------------------------
(* Claims C21 to C30: inserts, dictionaries, tags, reversal, readiness *)

\* The store file of the engine, and the rows a bulkAdd() slice holds:
\* positions start .. min(start + count, length) - 1, counted here from 1.
EngineFile == "dict.sqlite"

SliceEnd(in) ==
    IF in.start + in.count < Len(in.items) THEN in.start + in.count ELSE Len(in.items)

SliceLen(in) == IF SliceEnd(in) > in.start THEN SliceEnd(in) - in.start ELSE 0

\* A bulkAdd() call has returned or thrown.
BulkAddEnded == last.op = "bulkAdd" /\ last.out # "pending"

\* The rows of the call's store, and those stored before the call added any.
RowsNow(in) == files[EngineFile].rows[in.store]

RowsBefore(in) == SubSeq(RowsNow(in), 1, Len(RowsNow(in)) - in.added)

\* The last n rows of the store are the first n items of the slice, in order.
EndsWithSlice(in, n) ==
    /\ Len(RowsNow(in)) >= n
    /\ \A k \in 1..n :
          RowsNow(in)[Len(RowsNow(in)) - n + k]
             = EncodeRow(in.store, in.items[in.start + k], Len(RowsNow(in)) - n + k)

\* A step appends one row to one store of the engine's file or changes no
\* file.
OneRowAppended ==
    \/ files' = files
    \/ \E st \in StoreNames :
          /\ Len(files'[EngineFile].rows[st]) = Len(files[EngineFile].rows[st]) + 1
          /\ SubSeq(files'[EngineFile].rows[st], 1, Len(files[EngineFile].rows[st]))
                = files[EngineFile].rows[st]
          /\ st = last'.val.store
          /\ \A o \in StoreNames \ {st} :
                files'[EngineFile].rows[o] = files[EngineFile].rows[o]
          /\ \A q \in Paths \ {EngineFile} : files'[q] = files[q]

\* C21: bulkAdd() inserts nothing when items is empty, count <= 0 or start is
\* past the end; otherwise a call that succeeds has appended the items of
\* the slice, one row each, in slice order with increasing ids.  The call and
\* its return change no file, and each of its statements appends one row to
\* the call's store, leaving the rows already stored and the other stores
\* as they were, or changes nothing.
C21_BulkAddSlice ==
    /\ [](BulkAddEnded =>
            LET in == last.val
            IN  /\ (Len(in.items) = 0 \/ in.count <= 0) =>
                      (last.out = "ok" /\ in.added = 0 /\ last.step = "call")
                /\ in.start >= Len(in.items) => in.added = 0
                /\ (last.out = "ok" /\ Len(in.items) > 0 /\ in.count > 0) =>
                      (in.added = SliceLen(in) /\ EndsWithSlice(in, SliceLen(in))))
    /\ [][(last'.op = "bulkAdd" /\ last' # last) =>
             IF last'.step = "statement" THEN OneRowAppended ELSE files' = files]_vars

C21_Witness ==
    /\ last.op = "bulkAdd" /\ last.out = "ok" /\ last.step = "resume"
    /\ last.val.store = "dictionaries"
    /\ last.val.items = <<DictItem("D1"), DictItem("D2")>>
    /\ last.val.start = 1 /\ last.val.count = 2
    /\ Len(files[EngineFile].rows["dictionaries"]) = 1
    /\ files[EngineFile].rows["dictionaries"][1].title = "D2"

\* The k-th item of the slice cannot be inserted: the store has no table, or
\* its title was stored before the call or was inserted earlier in the slice.
FailsAt(in, k) ==
    \/ ~Queryable(files[EngineFile])
    \/ /\ in.store = "dictionaries"
       /\ \/ \E j \in 1..Len(RowsBefore(in)) :
                RowsBefore(in)[j].title = in.items[in.start + k].title
          \/ \E j \in 1..(k - 1) :
                in.items[in.start + j].title = in.items[in.start + k].title

\* C22: when the insert of the k-th item of the slice fails, bulkAdd() fails,
\* the k-1 items before it stay stored in slice order and no later item is
\* inserted.
C22_BulkAddNotAtomic ==
    (BulkAddEnded /\ last.step = "resume") =>
         LET in == last.val
             failing == {k \in 1..SliceLen(in) : FailsAt(in, k)}
         IN  /\ (failing = {}) <=> (last.out = "ok")
             /\ failing # {} =>
                   \E k \in failing :
                      /\ \A j \in failing : k <= j
                      /\ last.out = "SqlError"
                      /\ in.added = k - 1
                      /\ EndsWithSlice(in, k - 1)

C22_Witness ==
    /\ last.op = "bulkAdd" /\ last.out = "SqlError" /\ last.step = "resume"
    /\ last.val.store = "dictionaries"
    /\ last.val.items = <<DictItem("D2"), DictItem("D2")>>
    /\ last.val.start = 0 /\ last.val.count = 2 /\ last.val.added = 1
    /\ Len(files[EngineFile].rows["dictionaries"]) = 1
    /\ files[EngineFile].rows["dictionaries"][1].title = "D2"

\* The dictionaries rows of a store, and what may become of them in a step.
DictRows(c) == c.rows["dictionaries"]

UniqueTitles(c) ==
    \A i, j \in 1..Len(DictRows(c)) :
        DictRows(c)[i].title = DictRows(c)[j].title => i = j

KeptThenAppended(old, new) ==
    /\ Len(new) >= Len(old)
    /\ \A k \in 1..Len(old) : new[k] = old[k]

TitleStored(c, title) == \E i \in 1..Len(DictRows(c)) : DictRows(c)[i].title = title

\* C23: no two dictionaries rows of a store share a title; the INSERT of a
\* dictionaries item whose title is stored fails, changes nothing and makes
\* bulkAdd() fail; and
\* the dictionaries rows of a store change only by rows appended by
\* bulkAdd() or by purge() removing the store.
C23_TitleUniqueness ==
    /\ [](UniqueTitles(detached) /\ \A p \in Paths : UniqueTitles(files[p]))
    /\ [][/\ \A s \in Slots :
                (/\ calls[s].op = "bulkAdd" /\ calls[s].pc = "statement"
                 /\ calls'[s] # calls[s]
                 /\ calls[s].db = "open"
                 /\ calls[s].arg[1].store = "dictionaries"
                 /\ TitleStored(HandleContent, Head(calls[s].todo).title))
                => /\ calls'[s].pc = "done" /\ calls'[s].out = "SqlError"
                   /\ files' = files /\ detached' = detached
          /\ \A p \in Paths :
                \/ DictRows(files'[p]) = DictRows(files[p])
                \/ /\ last'.op = "bulkAdd"
                   /\ KeptThenAppended(DictRows(files[p]), DictRows(files'[p]))
                \/ /\ last'.op = "purge"
                   /\ files'[p] = NoFile
          /\ \/ DictRows(detached') = DictRows(detached)
             \/ /\ last'.op = "bulkAdd"
                /\ KeptThenAppended(DictRows(detached), DictRows(detached'))]_vars

C23_Witness ==
    /\ last.op = "bulkAdd" /\ last.out = "SqlError" /\ last.step = "resume"
    /\ last.val.store = "dictionaries"
    /\ Queryable(HandleContent)
    /\ DictRows(HandleContent) = <<EncodeRow("dictionaries", DictItem("D1"), 1)>>
    /\ last.val.items = <<DictItem("D1")>>

\* C24: dictionaryExists(title) answers true exactly when a dictionaries row
\* with that title is stored, whatever the other stores hold; and when a
\* purge() has returned, reporting the deletion as done, no title is stored,
\* so that the answer is false again.
C24_DictionaryExists ==
    /\ (last.op = "dictionaryExists" /\ last.out = "ok") =>
          (last.val[2] <=> TitleStored(HandleContent, last.val[1]))
    /\ (last.op = "purge" /\ last.out = "true") =>
          \A title \in Titles : ~TitleStored(HandleContent, title)

\* The summary the round trip of the item with this title should give.
SummaryOfItem(title) ==
    LET D == DictItem(title)
    IN  [title |-> D.title, version |-> D.version, sequenced |-> D.sequenced,
         prefixWildcardsSupported |-> D.prefixWildcardsSupported,
         frequencyMode |-> D.frequencyMode, counts |-> D.counts,
         yomitanVersion |-> D.yomitanVersion]

\* The fields of a summary the round trip is about.  Counts that were absent
\* come back as their default, which is undefined in one engine and {} in
\* the other: both read as absent here.
ClaimedFields(summary) ==
    [title |-> summary.title, version |-> summary.version,
     sequenced |-> summary.sequenced,
     prefixWildcardsSupported |-> summary.prefixWildcardsSupported,
     frequencyMode |-> summary.frequencyMode,
     counts |-> IF Len(summary.counts) = 1 /\ DOMAIN summary.counts[1] = {}
                THEN Absent ELSE summary.counts,
     yomitanVersion |-> summary.yomitanVersion]

\* C25: getDictionaryInfo() returns one summary per stored dictionaries row,
\* each with the title, version, sequenced, prefixWildcardsSupported,
\* frequencyMode, counts and yomitanVersion its item was inserted with
\* (absent ones absent); these fields depend on the stored rows only, so
\* that calls with no insert or purge between them return the same.
C25_DictionaryRoundTrip ==
    (last.op = "getDictionaryInfo" /\ last.out = "ok") =>
        /\ Len(last.val) = Len(DictRows(HandleContent))
        /\ \A i \in 1..Len(last.val) :
              /\ last.val[i].title = DictRows(HandleContent)[i].title
              /\ ClaimedFields(last.val[i]) = SummaryOfItem(last.val[i].title)

\* The tag a stored tagMeta row should come back as: the key of the row and
\* the data of the item inserted under that key.
TagOfRow(row) ==
    LET item == CHOOSE t \in TagItems : t.name = row.name /\ t.dictionary = row.dictionary
    IN  [name |-> item.name, category |-> item.category, order |-> <<item.order>>,
         notes |-> item.notes, score |-> item.score, dictionary |-> item.dictionary]

TagsOfPair(pair) ==
    LET hits == SelectSeq(StoredRows("tagMeta"),
                          LAMBDA r : r.name = pair.name /\ r.dictionary = pair.dictionary)
    IN  [k \in 1..Len(hits) |-> TagOfRow(hits[k])]

\* C26: findTagMetaBulk() returns, pair after pair, the stored tags whose
\* name and dictionary are both the pair's, never a tag of that name from
\* another dictionary, each with the category, order, notes and score of the
\* item it was inserted from; and a bulkAdd('tagMeta') on a prepared engine
\* whose store has the tables stores its tags, so that they come back.
C26_TagLookup ==
    /\ Found("findTagMetaBulk") =>
          last.val.result
             = Concat([i \in 1..Len(last.val.list) |-> TagsOfPair(last.val.list[i])])
    /\ (/\ last.op = "bulkAdd" /\ last.step = "resume" /\ last.val.store = "tagMeta"
        /\ GetDb(_drizzle) = "ok" /\ Queryable(HandleContent))
       => /\ last.out = "ok"
          /\ \A k \in 1..Len(last.val.items) :
                TagsOfPair([name |-> last.val.items[k].name,
                            dictionary |-> last.val.items[k].dictionary]) # <<>>

\* The input positions an entry of findTagMetaBulk() can be traced to: the
\* one its index names or, without an index, those of the pairs with the
\* entry's name and dictionary.
PositionsOf(e, list) ==
    IF "index" \in DOMAIN e THEN {e.index + 1} \cap (1..Len(list))
    ELSE {i \in 1..Len(list) : list[i].name = e.name /\ list[i].dictionary = e.dictionary}

\* C27: every entry findTagMetaBulk() returns identifies the one input
\* position it originated from.
C27_TagPositions ==
    Found("findTagMetaBulk") =>
        \A k \in 1..Len(last.val.result) :
            Cardinality(PositionsOf(last.val.result[k], last.val.list)) = 1

\* C28: reversing a string twice gives the string back, for every sequence
\* of code units, surrogate pairs and unpaired surrogates included.
C28_ReverseInvolution ==
    (last.op = "_reverseString" /\ last.step = "again") => last.val[2] = last.val[1]

\* C29: whenever no engine call is in flight, isPrepared() is true exactly
\* when the Connection Manager holds a handle, so that getDb() succeeds.
C29_ReadyFlagConsistency ==
    (\A s \in Slots : calls[s].op = "idle") => (_isOpen <=> GetDb(_drizzle) = "ok")

\* The outcomes of an open() that failed after its two guards.
OpenFailures == {"IoError", "SqlError"}

\* C30: when open() fails after its two guards, isOpening() is false and no
\* handle is held, so getDb() fails with NotOpen; and an open() called next
\* is rejected neither with AlreadyOpen nor with AlreadyOpening.
C30_FailedOpenLeavesClosed ==
    [][/\ (last'.op = "open" /\ last'.out \in OpenFailures /\ last' # last)
          => /\ ~_isOpening'
             /\ ~_client'.open
             /\ GetDb(_drizzle') = "NotOpen"
       /\ (/\ last.op = "open" /\ last.out \in OpenFailures
           /\ last'.op = "open" /\ last'.step = "call")
          => last'.out \notin {"AlreadyOpen", "AlreadyOpening"}]_vars

====
